---- MODULE Spec2Model ----
(***************************************************************************)
(* Verification model of the synapse-abf analysis engine                   *)
(* (src/analysis_tools.py: AnalysisTools and BlockDetector).               *)
(*                                                                         *)
(* The engine is a collection of stateless functions over numpy arrays.    *)
(* Each function is an operator computed the way the code computes it, and *)
(* each is applied by one action to inputs that Init draws from bounded    *)
(* sets.  The state holds the inputs of a call (data, time, sweeps), the   *)
(* name of the operation applied last (op), its arguments (args) and what  *)
(* it returned or raised (result).                                         *)
(*                                                                         *)
(* Number representation.  Sample values are integers (one unit is one     *)
(* hundredth of a pA: -25 stands for -0.25), times are integer ticks (one  *)
(* tick is one millisecond, so min_block_duration = 0.001 s is 1 tick).    *)
(* Means, medians, percentiles and standard deviations are kept exact: a   *)
(* mean as the pair sum/count, a median doubled, a standard deviation as   *)
(* sqrt(w)/k, and every comparison against them is decided by cross-       *)
(* multiplying and squaring.  Array indices are 0-based as in the code;    *)
(* At(a, i) reads element i.                                               *)
(*                                                                         *)
(* The application around the engine (src/abf_handler.py: ABFHandler,      *)
(* src/viewer.py: TracePlotWidget and ABFViewerMainWindow) is modelled by  *)
(* three more variables: handler (the ABFHandler of the main window),      *)
(* viewer (the fields and the sweep spin box of ABFViewerMainWindow) and   *)
(* plot0 (the TracePlotWidget of channel 0).  Each slot or method is one   *)
(* action; signals are delivered synchronously, as Qt does within a        *)
(* thread.  A trace is named by the file, sweep and channel it was read    *)
(* from and the number of effective filter passes applied to it.           *)
(***************************************************************************)
EXTENDS Integers, Sequences, FiniteSets, TLC

VARIABLES data, time, sweeps, op, args, result, handler, viewer, plot0

vars == <<data, time, sweeps, op, args, result, handler, viewer, plot0>>

\* ------------------------------------------------------------------ bounds
\* longest enumerated array
MaxLen == 4
\* sample values of enumerated arrays are -MaxVal..MaxVal
MaxVal == 2
\* sample period of the time array is 1..MaxDt ticks
MaxDt == 2

\* ------------------------------------------------------------- python/numpy
\* Optional[...] arguments and results: None is <<>>, a value v is <<v>>.
None == <<>>
Some(v) == <<v>>
IsNone(x) == x = <<>>
Val(x) == x[1]

\* What a call produced: exc = "" and the returned value, or the exception raised.
Return(v) == [exc |-> "", value |-> v]
Raise(e) == [exc |-> e, value |-> <<>>]

At(a, i) == a[i + 1]
Abs(x) == IF x < 0 THEN -x ELSE x
Min2(a, b) == IF a < b THEN a ELSE b
Max2(a, b) == IF a > b THEN a ELSE b

RECURSIVE SumSeq(_)
SumSeq(s) == IF s = <<>> THEN 0 ELSE Head(s) + SumSeq(Tail(s))

\* np.where(...)[0]: the members of a set of indices in ascending order
Ascending(S) ==
  [k \in 1..Cardinality(S) |-> CHOOSE e \in S : Cardinality({x \in S : x < e}) = k - 1]

\* zip(a, b): pairs up to the shorter length
Zip(a, b) == [k \in 1..Min2(Len(a), Len(b)) |-> <<a[k], b[k]>>]

\* data[lo:hi] for 0 <= lo, hi (python clamps hi to len and yields [] when hi <= lo)
Slice(a, lo, hi) ==
  LET h == Min2(hi, Len(a))
  IN  IF h <= lo THEN <<>> ELSE SubSeq(a, lo + 1, h)

\* np.max, np.min of a non-empty array
MaxOf(s) == CHOOSE x \in {s[i] : i \in 1..Len(s)} : \A i \in 1..Len(s) : s[i] <= x
MinOf(s) == CHOOSE x \in {s[i] : i \in 1..Len(s)} : \A i \in 1..Len(s) : s[i] >= x

\* -data
Neg(a) == [i \in 1..Len(a) |-> -a[i]]

\* ------------------------------------------------------------------ inputs
Vals == (-MaxVal)..MaxVal

Arrays(maxlen) == UNION {[1..n -> Vals] : n \in 0..maxlen}

\* a strictly increasing time array with sample period dt, starting at 0
TimeOf(n, dt) == [i \in 1..n |-> (i - 1) * dt]

\* --------------------------------------------------- AnalysisTools.find_peaks
\* scipy.signal.find_peaks(x, height, distance, prominence), as the code uses
\* it.  A local maximum is a plateau x[l..r] with 1 <= l <= r <= len - 2 whose
\* neighbours x[l-1] and x[r+1] are strictly lower; its index is the midpoint.
LocalMaxima(x) ==
  Ascending({(l + r) \div 2 : <<l, r>> \in
    {lr \in (1..(Len(x) - 2)) \X (1..(Len(x) - 2)) :
       /\ lr[1] <= lr[2]
       /\ At(x, lr[1] - 1) < At(x, lr[1])
       /\ \A i \in lr[1]..lr[2] : At(x, i) = At(x, lr[1])
       /\ At(x, lr[2] + 1) < At(x, lr[1])}})

\* height: keep the peaks with x[peak] >= height
SelectByHeight(x, peaks, height) ==
  IF IsNone(height) THEN peaks
  ELSE SelectSeq(peaks, LAMBDA pk : At(x, pk) >= Val(height))

\* np.argsort(x[peaks]): positions by ascending height, equal heights in
\* position order
PriorityToPosition(x, peaks) ==
  [r \in 1..Len(peaks) |->
     CHOOSE j \in 1..Len(peaks) :
       Cardinality({k \in 1..Len(peaks) :
                      \/ At(x, peaks[k]) < At(x, peaks[j])
                      \/ (At(x, peaks[k]) = At(x, peaks[j]) /\ k < j)}) = r - 1]

\* the loop of _select_by_peak_distance from priority rank i down to 1
RECURSIVE DistanceKeep(_, _, _, _, _)
DistanceKeep(peaks, order, i, keep, distance) ==
  IF i = 0 THEN keep
  ELSE LET j == order[i]
       IN  IF ~keep[j]
           THEN DistanceKeep(peaks, order, i - 1, keep, distance)
           ELSE DistanceKeep(peaks, order, i - 1,
                  [k \in 1..Len(peaks) |->
                     IF k # j /\ Abs(peaks[k] - peaks[j]) < distance THEN FALSE ELSE keep[k]],
                  distance)

SelectByDistance(x, peaks, distance) ==
  IF IsNone(distance) THEN peaks
  ELSE LET keep == DistanceKeep(peaks, PriorityToPosition(x, peaks), Len(peaks),
                                [k \in 1..Len(peaks) |-> TRUE], Val(distance))
           kept == SelectSeq([k \in 1..Len(peaks) |-> <<peaks[k], keep[k]>>],
                             LAMBDA p : p[2])
       IN  [k \in 1..Len(kept) |-> kept[k][1]]

\* peak_prominences: the peak's height above the higher of the two lowest
\* points between it and the nearest higher sample on each side
Prominence(x, pk) ==
  LET n == Len(x)
      higher_left == {i \in 0..(pk - 1) : At(x, i) > At(x, pk)}
      higher_right == {i \in (pk + 1)..(n - 1) : At(x, i) > At(x, pk)}
      lo == IF higher_left = {} THEN 0
            ELSE (CHOOSE i \in higher_left : \A k \in higher_left : k <= i) + 1
      hi == IF higher_right = {} THEN n - 1
            ELSE (CHOOSE i \in higher_right : \A k \in higher_right : k >= i) - 1
      left_min == MinOf(Slice(x, lo, pk + 1))
      right_min == MinOf(Slice(x, pk, hi + 1))
  IN  At(x, pk) - Max2(left_min, right_min)

SelectByProminence(x, peaks, prominence) ==
  IF IsNone(prominence) THEN peaks
  ELSE SelectSeq(peaks, LAMBDA pk : Prominence(x, pk) >= Val(prominence))

\* signal.find_peaks: the indices, or the exception for a distance below 1
signal_find_peaks(x, height, distance, prominence) ==
  IF ~IsNone(distance) /\ Val(distance) < 1
  THEN Raise("ValueError")
  ELSE Return(SelectByProminence(x,
                SelectByDistance(x, SelectByHeight(x, LocalMaxima(x), height), distance),
                prominence))

\* -height if height else None
TroughHeight(height) ==
  IF IsNone(height) \/ Val(height) = 0 THEN None ELSE Some(-Val(height))

\* mutant: a trough's value is left negated, as the peak finder saw it
PeakValue_Negated(d, peak_idx, find_max) ==
  IF find_max THEN At(d, peak_idx) ELSE -At(d, peak_idx)

\* value=data[peak_idx]
PeakValue(d, peak_idx, find_max) == At(d, peak_idx)

find_peaks(d, t, height, distance, prominence, find_max) ==
  LET found == IF find_max
               THEN signal_find_peaks(d, height, distance, prominence)
               ELSE signal_find_peaks(Neg(d), TroughHeight(height), distance, prominence)
  IN  IF found.exc # ""
      THEN found
      ELSE Return([k \in 1..Len(found.value) |->
                     [index |-> found.value[k],
                      time |-> At(t, found.value[k]),
                      value |-> PeakValue(d, found.value[k], find_max),
                      is_max |-> find_max]])

\* ------------------------------------------------- AnalysisTools.detect_events
Directions == {"above", "below"}

EventMask(d, threshold, direction) ==
  [i \in 1..Len(d) |->
     IF direction = "above" THEN d[i] > threshold ELSE d[i] < threshold]

\* np.diff(mask.astype(int)) at 0-based position i
MaskDiff(mask, i) ==
  (IF mask[i + 2] THEN 1 ELSE 0) - (IF mask[i + 1] THEN 1 ELSE 0)

EventStartsRaw(mask) ==
  Ascending({i \in 0..(Len(mask) - 2) : MaskDiff(mask, i) = 1})

EventEndsRaw(mask) ==
  Ascending({i \in 0..(Len(mask) - 2) : MaskDiff(mask, i) = -1})

\* "Handle edge cases"
EventStarts(mask) ==
  IF mask[1] THEN <<0>> \o EventStartsRaw(mask) ELSE EventStartsRaw(mask)

EventEnds(mask) ==
  IF mask[Len(mask)] THEN EventEndsRaw(mask) \o <<Len(mask) - 1>> ELSE EventEndsRaw(mask)

\* int(min_duration * (len(time) / (time[-1] - time[0]))), min_duration >= 0
EventMinSamples(t, min_duration) ==
  (min_duration * Len(t)) \div (t[Len(t)] - t[1])

EventLongEnough(pair, min_samples) == pair[2] - pair[1] >= min_samples

detect_events(d, t, threshold, direction, min_duration) ==
  IF Len(d) = 0
  THEN Raise("IndexError")            \* mask[0] on an empty array
  ELSE IF t[Len(t)] - t[1] = 0
  THEN \* len/0.0 is inf: int(0.0 * inf) and int(inf) both raise
       IF min_duration = 0 THEN Raise("ValueError") ELSE Raise("OverflowError")
  ELSE LET mask == EventMask(d, threshold, direction)
           min_samples == EventMinSamples(t, min_duration)
       IN  Return(SelectSeq(Zip(EventStarts(mask), EventEnds(mask)),
                            LAMBDA p : EventLongEnough(p, min_samples)))

\* ------------------------------------------------------------ exact numbers
\* A rational num/den with den > 0 (np.mean, np.median).
Rat(n, d) == [num |-> n, den |-> d]
RatEq(p, q) == p.num * q.den = q.num * p.den
RatLt(p, q) == p.num * q.den < q.num * p.den

\* L > c * sqrt(w) and L < c * sqrt(w) for integers L, c and w >= 0
GtRoot(L, c, w) ==
  IF c >= 0 THEN L > 0 /\ L * L > c * c * w
            ELSE L > 0 \/ L * L < c * c * w
LtRoot(L, c, w) == GtRoot(-L, -c, w)

\* The number (a + c * sqrt(w)) / k with k > 0: a level offset by a multiple
\* of a standard deviation.
Surd(a, c, w, k) == [a |-> a, c |-> c, w |-> w, k |-> k]
SurdZero == Surd(0, 0, 0, 1)
IntGtSurd(x, s) == GtRoot(x * s.k - s.a, s.c, s.w)
IntLtSurd(x, s) == LtRoot(x * s.k - s.a, s.c, s.w)
SurdPositive(s) == IntLtSurd(0, s)
SurdNegative(s) == IntGtSurd(0, s)

\* np.sort
Sorted(d) == SortSeq(d, LAMBDA a, b : a < b)

\* 2 * np.median(s) of a non-empty array
Median2(s) ==
  LET srt == Sorted(s)
      m == Len(s)
  IN  IF m % 2 = 1 THEN 2 * srt[(m + 1) \div 2]
                   ELSE srt[m \div 2] + srt[m \div 2 + 1]

\* np.std(s) = sqrt(VarNum(s)) / len(s), np.var(s) = VarNum(s) / len(s)^2
VarNum(s) ==
  Len(s) * SumSeq([i \in 1..Len(s) |-> s[i] * s[i]]) - SumSeq(s) * SumSeq(s)

\* ------------------------------------------------- BlockDetector.detect_blocks
\* one tick is 0.001 s, the default min_block_duration
TicksPerSecond == 1000
DefaultMinBlockDuration == 1
DefaultBlockThresholdFactor == 2
BaselineMaskMin == 10

\* 2 * baseline_amplitude: the supplied baseline_threshold, else the median of
\* the upper half of the sorted data (the histogram estimate is overwritten)
BaselineAmplitude2(d, baseline_threshold) ==
  IF IsNone(baseline_threshold)
  THEN Median2(Slice(Sorted(d), Len(d) \div 2, Len(d)))
  ELSE 2 * Val(baseline_threshold)

\* np.abs(data - baseline_amplitude) < np.std(data) * 1.5
BaselineMask(d, b2) ==
  [i \in 1..Len(d) |-> LtRoot(Abs(2 * d[i] - b2) * Len(d), 3, VarNum(d))]

\* the samples baseline_std is the standard deviation of
BaselineRegion(d, b2) ==
  LET mask == BaselineMask(d, b2)
      picked == SelectSeq([i \in 1..Len(d) |-> <<d[i], mask[i]>>], LAMBDA p : p[2])
  IN  IF Len(picked) < BaselineMaskMin
      THEN d
      ELSE [i \in 1..Len(picked) |-> picked[i][1]]

\* block_threshold, given 2 * baseline (b2), the factor and the baseline region
BlockThreshold(b2, factor, region) ==
  LET w == VarNum(region)
      k == Len(region)
  IN  IF b2 < 0
      THEN LET thr == Surd(b2 * k, 2 * factor, w, 2 * k)
           IN  IF SurdPositive(thr) THEN SurdZero ELSE thr       \* min(thr, 0.0)
      ELSE IF b2 > 0
      THEN LET thr == Surd(b2 * k, -2 * factor, w, 2 * k)
           IN  IF SurdNegative(thr) THEN SurdZero ELSE thr       \* max(thr, 0.0)
      ELSE Surd(0, factor, w, k)

\* in_block
InBlock(d, b2, factor) ==
  LET thr == BlockThreshold(b2, factor, BaselineRegion(d, b2))
  IN  [i \in 1..Len(d) |->
         IF b2 < 0
         THEN IntGtSurd(d[i], thr) /\ d[i] < 0 /\ Abs(2 * d[i]) < Abs(b2)
         ELSE IF b2 > 0
         THEN IntLtSurd(d[i], thr) /\ d[i] > 0 /\ Abs(2 * d[i]) < Abs(b2)
         ELSE IntLtSurd(Abs(d[i]), thr)]

\* np.where(diff == 1)[0] + 1 and np.where(diff == -1)[0] + 1
BlockStartsRaw(in_block) ==
  Ascending({i + 1 : i \in {j \in 0..(Len(in_block) - 2) : MaskDiff(in_block, j) = 1}})

BlockEndsRaw(in_block) ==
  Ascending({i + 1 : i \in {j \in 0..(Len(in_block) - 2) : MaskDiff(in_block, j) = -1}})

\* "Handle edge cases"
BlockStartsEdge(in_block) ==
  IF in_block[1] THEN <<0>> \o BlockStartsRaw(in_block) ELSE BlockStartsRaw(in_block)

\* mutant: the boundary index is not appended for a run reaching the last sample
BlockEndsEdge_NoLast(in_block) == BlockEndsRaw(in_block)

BlockEndsEdge(in_block) ==
  IF in_block[Len(in_block)]
  THEN BlockEndsRaw(in_block) \o <<Len(in_block) - 1>>
  ELSE BlockEndsRaw(in_block)

\* "Ensure we have matching starts and ends"
BlockEnds(in_block) ==
  IF Len(BlockStartsEdge(in_block)) > Len(BlockEndsEdge(in_block))
  THEN BlockEndsEdge(in_block) \o <<Len(in_block) - 1>>
  ELSE BlockEndsEdge(in_block)

BlockStarts(in_block) ==
  IF Len(BlockEnds(in_block)) > Len(BlockStartsEdge(in_block))
  THEN <<0>> \o BlockStartsEdge(in_block)
  ELSE BlockStartsEdge(in_block)

\* int(min_block_duration * sample_rate), min_block_duration >= 0 in ticks
MinBlockSamples(t, min_block_duration) ==
  IF Len(t) > 1
  THEN (min_block_duration * Len(t)) \div (t[Len(t)] - t[1])
  ELSE min_block_duration \div TicksPerSecond

\* the dictionary appended for one (start_idx, end_idx) pair
BlockEvent(d, t, b2, start_idx, end_idx) ==
  LET block_data == Slice(d, start_idx, end_idx + 1)
      total == SumSeq(block_data)
  IN  [start_time |-> At(t, start_idx),
       end_time |-> At(t, end_idx),
       duration |-> At(t, end_idx) - At(t, start_idx),
       start_idx |-> start_idx,
       end_idx |-> end_idx,
       average_amplitude |-> Rat(total, Len(block_data)),
       baseline_amplitude |-> Rat(b2, 2),
       block_depth |-> Rat(Abs(b2) * Len(block_data) - 2 * Abs(total),
                           2 * Len(block_data))]

detect_blocks(d, t, baseline_threshold, block_threshold_factor, min_block_duration) ==
  IF Len(d) = 0 \/ Len(t) = 0
  THEN Return(<<>>)
  ELSE LET b2 == BaselineAmplitude2(d, baseline_threshold)
           in_block == InBlock(d, b2, block_threshold_factor)
           min_block_samples == MinBlockSamples(t, min_block_duration)
           kept == SelectSeq(Zip(BlockStarts(in_block), BlockEnds(in_block)),
                             LAMBDA p : ~(p[2] - p[1] < min_block_samples))
       IN  Return([k \in 1..Len(kept) |-> BlockEvent(d, t, b2, kept[k][1], kept[k][2])])

\* ------------------------------------------- AnalysisTools.calculate_rise_time
\* percentages are whole percents here; decay_percent is in tenths of a percent
DefaultBaselinePercent == 10
DefaultPeakPercent == 90
DefaultDecayPermille == 632

\* 100 * np.percentile(s, q) of a non-empty array (linear interpolation between
\* the two order statistics around position (len - 1) * q / 100)
Percentile100(s, q) ==
  LET srt == Sorted(s)
      pos == (Len(s) - 1) * q
      lo == pos \div 100
      r == pos % 100
  IN  IF r = 0 THEN 100 * srt[lo + 1]
               ELSE 100 * srt[lo + 1] + r * (srt[lo + 2] - srt[lo + 1])

\* 10000 * (baseline_value + (peak_value - baseline_value) * (percent / 100))
RiseTarget10000(baseline100, peak_value, percent) ==
  100 * baseline100 + (100 * peak_value - baseline100) * percent

\* np.where(np.diff((rising_portion >= target).astype(int)) == 1)[0]
RiseCrossings(rising_portion, target10000) ==
  LET reached == [i \in 1..Len(rising_portion) |-> 10000 * rising_portion[i] >= target10000]
  IN  Ascending({i \in 0..(Len(rising_portion) - 2) : MaskDiff(reached, i) = 1})

RiseGuard(d, peak_idx) == peak_idx <= 0 \/ peak_idx >= Len(d)

\* mutant: high_idx >= low_idx, which lets a step through with a rise time of 0
RiseTimeBody_AllowEqual(d, t, peak_idx, baseline_percent, peak_percent) ==
  LET baseline100 == Percentile100(Slice(d, 0, peak_idx), baseline_percent)
      peak_value == At(d, peak_idx)
      rising_portion == Slice(d, 0, peak_idx + 1)
      low_crossings ==
        RiseCrossings(rising_portion, RiseTarget10000(baseline100, peak_value, baseline_percent))
      high_crossings ==
        RiseCrossings(rising_portion, RiseTarget10000(baseline100, peak_value, peak_percent))
  IN  IF Len(low_crossings) > 0 /\ Len(high_crossings) > 0
      THEN LET low_idx == low_crossings[Len(low_crossings)]
               high_idx == high_crossings[Len(high_crossings)]
           IN  IF high_idx >= low_idx
               THEN Return(Some(At(t, high_idx) - At(t, low_idx)))
               ELSE Return(None)
      ELSE Return(None)

\* the computation after the guard, for 1 <= peak_idx < len(data)
RiseTimeBody(d, t, peak_idx, baseline_percent, peak_percent) ==
  LET baseline100 == Percentile100(Slice(d, 0, peak_idx), baseline_percent)
      peak_value == At(d, peak_idx)
      rising_portion == Slice(d, 0, peak_idx + 1)
      low_crossings ==
        RiseCrossings(rising_portion, RiseTarget10000(baseline100, peak_value, baseline_percent))
      high_crossings ==
        RiseCrossings(rising_portion, RiseTarget10000(baseline100, peak_value, peak_percent))
  IN  IF Len(low_crossings) > 0 /\ Len(high_crossings) > 0
      THEN LET low_idx == low_crossings[Len(low_crossings)]
               high_idx == high_crossings[Len(high_crossings)]
           IN  IF high_idx > low_idx
               THEN Return(Some(At(t, high_idx) - At(t, low_idx)))
               ELSE Return(None)
      ELSE Return(None)

\* mutant: the guard of calculate_decay_time pasted into calculate_rise_time;
\* at peak_idx = 0 the percentile of the empty data[:0] has no element to read
calculate_rise_time_DecayGuard(d, t, peak_idx, baseline_percent, peak_percent) ==
  IF peak_idx < 0 \/ peak_idx >= Len(d) - 1
  THEN Return(None)
  ELSE IF peak_idx = 0
  THEN Raise("IndexError")
  ELSE RiseTimeBody(d, t, peak_idx, baseline_percent, peak_percent)

calculate_rise_time(d, t, peak_idx, baseline_percent, peak_percent) ==
  IF RiseGuard(d, peak_idx)
  THEN Return(None)
  ELSE RiseTimeBody(d, t, peak_idx, baseline_percent, peak_percent)

\* ------------------------------------------ AnalysisTools.calculate_decay_time
\* mutant: the guard of calculate_rise_time pasted into calculate_decay_time
DecayGuard_RiseGuard(d, peak_idx) == peak_idx <= 0 \/ peak_idx >= Len(d)

DecayGuard(d, peak_idx) == peak_idx < 0 \/ peak_idx >= Len(d) - 1

\* decay_portion < peak_value * (1 - decay_percent / 100), position by position
DecayBelowTarget(decay_portion, peak_value, decay_permille) ==
  [i \in 1..Len(decay_portion) |->
     1000 * decay_portion[i] < peak_value * (1000 - decay_permille)]

calculate_decay_time(d, t, peak_idx, decay_permille) ==
  IF DecayGuard(d, peak_idx)
  THEN Return(None)
  ELSE LET decay_portion == Slice(d, peak_idx, Len(d))
           decay_time == Slice(t, peak_idx, Len(t))
           below_target == DecayBelowTarget(decay_portion, At(d, peak_idx), decay_permille)
           hits == {i \in 0..(Len(decay_portion) - 1) : At(below_target, i)}
       IN  IF hits # {}
           THEN LET decay_idx == Ascending(hits)[1]
                IN  Return(Some(At(decay_time, decay_idx) - At(decay_time, 0)))
           ELSE Return(None)

\* ------------------------------------------ AnalysisTools.calculate_statistics
\* data + c
Shift(d, c) == [i \in 1..Len(d) |-> d[i] + c]

\* mutant: the sample variance (divisor N - 1)
Variance_Sample(d) == Rat(VarNum(d), Len(d) * (Len(d) - 1))

\* np.var(data): VarNum is N^2 times the population variance
Variance(d) == Rat(VarNum(d), Len(d) * Len(d))

\* np.min and np.max raise ValueError on a zero-size array
calculate_statistics(d) ==
  IF Len(d) = 0
  THEN Raise("ValueError")
  ELSE Return([mean |-> Rat(SumSeq(d), Len(d)),
               std |-> Surd(0, 1, VarNum(d), Len(d)),
               min |-> MinOf(d),
               max |-> MaxOf(d),
               median |-> Rat(Median2(d), 2),
               q25 |-> Rat(Percentile100(d, 25), 100),
               q75 |-> Rat(Percentile100(d, 75), 100),
               range |-> MaxOf(d) - MinOf(d),
               variance |-> Variance(d)])

\* ------------------------------- BlockDetector.detect_blocks_multiple_sweeps
DefaultMultiSweepFactor == 3

\* a SweepData record as the engine reads it
Sweep(number, chan, d, dt) ==
  [sweep_number |-> number, channel |-> chan, data |-> d, time |-> TimeOf(Len(d), dt)]

\* mutant: every block is tagged with the first sweep number of a recording
TagBlock_FirstSweep(block, sweep) ==
  [sweep_number |-> 0, channel |-> sweep.channel] @@ block

\* block['sweep_number'] = ..., block['channel'] = ...
TagBlock(block, sweep) ==
  [sweep_number |-> sweep.sweep_number, channel |-> sweep.channel] @@ block

RECURSIVE detect_blocks_multiple_sweeps(_, _, _, _)
detect_blocks_multiple_sweeps(sweep_data_list, baseline_threshold, factor, min_block_duration) ==
  IF sweep_data_list = <<>>
  THEN Return(<<>>)
  ELSE LET sweep == Head(sweep_data_list)
           blocks == detect_blocks(sweep.data, sweep.time, baseline_threshold,
                                   factor, min_block_duration).value
           rest == detect_blocks_multiple_sweeps(Tail(sweep_data_list), baseline_threshold,
                                                 factor, min_block_duration)
       IN  Return([k \in 1..Len(blocks) |-> TagBlock(blocks[k], sweep)] \o rest.value)

\* ------------------------------------------------ BlockDetector.detect_inserts
\* window bounds are fractions of the sweep length, given in tenths
FractionDen == 10
DefaultBaselineStart == 0
DefaultBaselineEnd == 1
DefaultResponseStart == 1
DefaultResponseEnd == 2
DefaultThresholdFactor == 3

\* int(x) of the rational num/den: truncation toward zero
Trunc(num, den) == IF num >= 0 THEN num \div den ELSE -((-num) \div den)

\* mutant: round(fraction * len(sweep.data)) instead of int(...), halves upward
WindowIdx_Round(fraction, d) ==
  IF fraction >= 0
  THEN (2 * fraction * Len(d) + FractionDen) \div (2 * FractionDen)
  ELSE -((2 * (-fraction) * Len(d) + FractionDen) \div (2 * FractionDen))

\* int(fraction * len(sweep.data))
WindowIdx(fraction, d) == Trunc(fraction * Len(d), FractionDen)

\* deviation > threshold for a baseline slice and a response slice, where
\* threshold = |baseline_mean| + threshold_factor * baseline_std and
\* deviation = max(|response_max - baseline_mean|, |response_min - baseline_mean|);
\* both sides are multiplied by len(baseline_data)
InsertDeviationNum(baseline_data, response_data) ==
  Max2(Abs(MaxOf(response_data) * Len(baseline_data) - SumSeq(baseline_data)),
       Abs(MinOf(response_data) * Len(baseline_data) - SumSeq(baseline_data)))

\* mutant: deviation >= threshold instead of deviation > threshold
InsertFlagged_OrEqual(baseline_data, response_data, threshold_factor) ==
  ~LtRoot(InsertDeviationNum(baseline_data, response_data) - Abs(SumSeq(baseline_data)),
          threshold_factor, VarNum(baseline_data))

InsertFlagged(baseline_data, response_data, threshold_factor) ==
  GtRoot(InsertDeviationNum(baseline_data, response_data) - Abs(SumSeq(baseline_data)),
         threshold_factor, VarNum(baseline_data))

InsertRecord(i, baseline_data, response_data) ==
  [sweep |-> i,
   baseline_mean |-> Rat(SumSeq(baseline_data), Len(baseline_data)),
   baseline_std |-> Surd(0, 1, VarNum(baseline_data), Len(baseline_data)),
   response_mean |-> Rat(SumSeq(response_data), Len(response_data)),
   response_max |-> MaxOf(response_data),
   response_min |-> MinOf(response_data),
   deviation |-> Rat(InsertDeviationNum(baseline_data, response_data), Len(baseline_data))]

\* the body of the loop for sweep number i of the list: the records it appends
InsertsOfSweep(i, sweep, baseline_start, baseline_end, response_start, response_end, threshold_factor) ==
  LET baseline_start_idx == Max2(0, WindowIdx(baseline_start, sweep.data))
      baseline_end_idx == Min2(Len(sweep.data), WindowIdx(baseline_end, sweep.data))
      response_start_idx == Max2(0, WindowIdx(response_start, sweep.data))
      response_end_idx == Min2(Len(sweep.data), WindowIdx(response_end, sweep.data))
  IN  IF baseline_end_idx <= baseline_start_idx \/ response_end_idx <= response_start_idx
      THEN <<>>
      ELSE LET baseline_data == Slice(sweep.data, baseline_start_idx, baseline_end_idx)
               response_data == Slice(sweep.data, response_start_idx, response_end_idx)
           IN  IF InsertFlagged(baseline_data, response_data, threshold_factor)
               THEN <<InsertRecord(i, baseline_data, response_data)>>
               ELSE <<>>

RECURSIVE InsertsFrom(_, _, _, _, _, _, _)
InsertsFrom(i, sweep_data_list, baseline_start, baseline_end, response_start, response_end, threshold_factor) ==
  IF i >= Len(sweep_data_list)
  THEN <<>>
  ELSE InsertsOfSweep(i, At(sweep_data_list, i), baseline_start, baseline_end,
                      response_start, response_end, threshold_factor)
       \o InsertsFrom(i + 1, sweep_data_list, baseline_start, baseline_end,
                      response_start, response_end, threshold_factor)

detect_inserts(sweep_data_list, baseline_start, baseline_end, response_start, response_end, threshold_factor) ==
  IF Len(sweep_data_list) = 0
  THEN Return(<<>>)
  ELSE Return(InsertsFrom(0, sweep_data_list, baseline_start, baseline_end,
                          response_start, response_end, threshold_factor))

\* --------------------------------------------- AnalysisTools.baseline_subtract
\* np.mean of an empty slice is nan (a RuntimeWarning, no exception)
NaN == Rat(0, 0)

\* data - np.mean(data[start_idx:end_idx]), for 0 <= start_idx and end_idx;
\* a slice bound past the end of the array is clipped to it
baseline_subtract(d, start_idx, end_idx) ==
  LET stop == IF IsNone(end_idx) THEN Len(d) ELSE Min2(Val(end_idx), Len(d))
      window == Slice(d, Min2(start_idx, Len(d)), Max2(stop, Min2(start_idx, Len(d))))
  IN  IF Len(window) = 0
      THEN Return([i \in 1..Len(d) |-> NaN])
      ELSE Return([i \in 1..Len(d) |-> Rat(d[i] * Len(window) - SumSeq(window), Len(window))])

\* -------------------------------------------------- AnalysisTools.filter_data
\* An array a filter returns: the input array itself (applied = "none"), or a
\* new array computed from `source` by the named filter; sigma is the Gaussian
\* kernel width in samples (0 where there is none).  The filtered sample
\* values themselves are not computed.
Unchanged(d) == [source |-> d, applied |-> "none", sigma |-> Rat(0, 1)]
Filtered(d, name, sigma) == [source |-> d, applied |-> name, sigma |-> sigma]

DefaultOrder == 4

\* signal.butter(order, Wn, btype) with Wn = wn_num / wn_den: digital critical
\* frequencies must satisfy 0 < Wn < 1 (and low < high for a band)
ButterRaises(wn_nums, wn_den) ==
  \/ \E i \in 1..Len(wn_nums) :
       \/ wn_nums[i] * wn_den <= 0                 \* Wn <= 0
       \/ Abs(wn_nums[i]) >= Abs(wn_den)           \* Wn >= 1, given Wn > 0
  \/ Len(wn_nums) = 2 /\ wn_nums[1] * wn_den >= wn_nums[2] * wn_den

\* signal.filtfilt(b, a, data): the default padlen is 3 * max(len(a), len(b))
\* and the input must be longer
FiltfiltPadlen(filter_type, order) ==
  IF filter_type = "bandpass" THEN 3 * (2 * order + 1) ELSE 3 * (order + 1)

\* cutoff is <<c>> for a scalar and <<low, high>> for a pair; nyquist is
\* sample_rate / 2, so cutoff / nyquist = 2 * c / sample_rate
filter_data(d, filter_type, cutoff, sample_rate, order) ==
  IF filter_type \notin {"lowpass", "highpass", "bandpass"}
  THEN Return(Unchanged(d))
  ELSE IF (filter_type = "bandpass") # (Len(cutoff) = 2)
  THEN Raise("TypeError")            \* tuple / float, or unpacking a float
  ELSE IF sample_rate = 0
  THEN Raise("ZeroDivisionError")    \* cutoff / nyquist
  ELSE IF ButterRaises([i \in 1..Len(cutoff) |-> 2 * cutoff[i]], sample_rate)
  THEN Raise("ValueError")
  ELSE IF Len(d) <= FiltfiltPadlen(filter_type, order)
  THEN Raise("ValueError")
  ELSE Return(Filtered(d, "butterworth", Rat(0, 1)))

\* -------------------------------------- AnalysisTools.gaussian_lowpass_filter
\* sigma_samples = 0.1325 * sample_rate / cutoff_freq
SigmaSamples(cutoff_freq, sample_rate) == Rat(1325 * sample_rate, 10000 * cutoff_freq)

\* mutant: cutoff_freq > sample_rate / 2 instead of >=
gaussian_lowpass_filter_StrictNyquist(d, cutoff_freq, sample_rate) ==
  IF cutoff_freq <= 0 \/ sample_rate <= 0
  THEN Return(Unchanged(d))
  ELSE IF 2 * cutoff_freq > sample_rate
  THEN Return(Unchanged(d))
  ELSE Return(Filtered(d, "gaussian", SigmaSamples(cutoff_freq, sample_rate)))

gaussian_lowpass_filter(d, cutoff_freq, sample_rate) ==
  IF cutoff_freq <= 0 \/ sample_rate <= 0
  THEN Return(Unchanged(d))
  ELSE IF 2 * cutoff_freq >= sample_rate
  THEN Return(Unchanged(d))
  ELSE Return(Filtered(d, "gaussian", SigmaSamples(cutoff_freq, sample_rate)))

\* -------------------------------------------------------------- ABFHandler
\* The files the viewer can be pointed at: one directory, listed in sorted
\* order, a path being the position in the listing.  pyabf.ABF(path) raises
\* on a file that is not readable.
\* number of samples of the long recording
MaxTraceLen == 30

Directory ==
  << [readable |-> TRUE, sweepCount |-> 3, channelCount |-> 2, dataRate |-> 1000, sweepPointCount |-> 5],
     [readable |-> TRUE, sweepCount |-> 2, channelCount |-> 1, dataRate |-> 1000, sweepPointCount |-> 5],
     [readable |-> FALSE, sweepCount |-> 0, channelCount |-> 0, dataRate |-> 0, sweepPointCount |-> 0],
     [readable |-> TRUE, sweepCount |-> 1, channelCount |-> 1, dataRate |-> 1000, sweepPointCount |-> MaxTraceLen] >>

Paths == 1..Len(Directory)

\* -0.25 pA (open channel) and -0.05 pA (blocked)
OpenLevel == 0 - 25
BlockedLevel == 0 - 5

\* abf.sweepY after setSweep: the recorded samples of one sweep of one channel
sweepY(path, sweep_number, channel) ==
  IF channel = 1 THEN [i \in 1..Directory[path].sweepPointCount |-> 10 * sweep_number]
  ELSE IF path = 1 /\ sweep_number = 0 THEN <<OpenLevel, BlockedLevel, BlockedLevel, OpenLevel, OpenLevel>>
  ELSE IF path = 1 /\ sweep_number = 1 THEN <<OpenLevel, OpenLevel, OpenLevel, OpenLevel, OpenLevel>>
  ELSE IF path = 1 THEN <<OpenLevel, OpenLevel, BlockedLevel, BlockedLevel, OpenLevel>>
  ELSE IF path = 2 /\ sweep_number = 0 THEN <<OpenLevel, BlockedLevel, OpenLevel, BlockedLevel, OpenLevel>>
  ELSE IF path = 2 THEN <<BlockedLevel, OpenLevel, OpenLevel, OpenLevel, BlockedLevel>>
  ELSE [i \in 1..Directory[path].sweepPointCount |-> IF i % 4 = 0 THEN BlockedLevel ELSE OpenLevel]

\* abf.sweepX: one sample per tick
sweepX(path) == TimeOf(Directory[path].sweepPointCount, 1)

\* An array held by the viewer: the sweep it was read from and the number of
\* filter passes that changed it since (0 for the recorded samples).
Trace(path, sweep_number, channel, passes) ==
  [file |-> path, sweep |-> sweep_number, channel |-> channel, passes |-> passes]

TimeBase(path, sweep_number) == [file |-> path, sweep |-> sweep_number]

ABFHandler_init ==
  [file_path |-> None, abf |-> None, current_sweep |-> 0, current_channel |-> 0]

load_file(h, file_path) ==
  IF Directory[file_path].readable
  THEN [handler |-> [file_path |-> Some(file_path), abf |-> Some(file_path),
                     current_sweep |-> 0, current_channel |-> 0],
        value |-> TRUE]
  ELSE [handler |-> h, value |-> FALSE]

is_loaded(h) == h.abf # None

channel_count(h) == IF ~is_loaded(h) THEN 0 ELSE Directory[h.abf[1]].channelCount

sweep_count(h) == IF ~is_loaded(h) THEN 0 ELSE Directory[h.abf[1]].sweepCount

sample_rate_of(h) == IF ~is_loaded(h) THEN 0 ELSE Directory[h.abf[1]].dataRate

get_sweep(h, sweep_number, channel) ==
  IF ~is_loaded(h) THEN None
  ELSE IF sweep_number < 0 \/ sweep_number >= sweep_count(h) THEN None
  ELSE IF channel < 0 \/ channel >= channel_count(h) THEN None
  ELSE Some([sweep_number |-> sweep_number, channel |-> channel,
             time |-> TimeBase(h.abf[1], sweep_number),
             data |-> Trace(h.abf[1], sweep_number, channel, 0),
             sample_rate |-> sample_rate_of(h)])

get_all_sweeps(h, channel) ==
  IF ~is_loaded(h) THEN <<>>
  ELSE [i \in 1..sweep_count(h) |-> get_sweep(h, i - 1, channel)[1]]

set_current_sweep_NoUpper(h, sweep_number) ==
  IF 0 <= sweep_number THEN [h EXCEPT !.current_sweep = sweep_number] ELSE h

set_current_sweep(h, sweep_number) ==
  IF 0 <= sweep_number /\ sweep_number < sweep_count(h)
  THEN [h EXCEPT !.current_sweep = sweep_number]
  ELSE h

set_current_channel(h, channel) ==
  IF 0 <= channel /\ channel < channel_count(h)
  THEN [h EXCEPT !.current_channel = channel]
  ELSE h

\* ---------------------------------------------------------- TracePlotWidget
\* cursor lines are None until first enabled; cursor_distance is None while
\* the widget has no _cursor_distance attribute
TracePlotWidget_init ==
  [cursor1_line |-> None, cursor2_line |-> None,
   cursor1_enabled |-> FALSE, cursor2_enabled |-> FALSE,
   cursors_locked |-> FALSE, cursor_distance |-> None,
   current_time |-> None, current_data |-> None,
   block_markers |-> <<>>, peak_markers |-> <<>>]

\* The centre of the current view, where a new cursor is put, is whatever the
\* user has panned to: an input of the call.
set_cursor2_position(w, x) ==
  IF w.cursor2_line # None THEN [w EXCEPT !.cursor2_line = Some(x)] ELSE w

set_cursor1_position(w, x) ==
  IF w.cursor1_line # None THEN [w EXCEPT !.cursor1_line = Some(x)] ELSE w

\* slot of cursor1_line.sigPositionChanged; the partner is moved with its
\* signals blocked
on_cursor1_moved(w) ==
  IF w.cursor1_line # None /\ w.current_time # None
  THEN IF w.cursors_locked /\ w.cursor2_line # None
       THEN IF w.cursor_distance = None
            THEN [w EXCEPT !.cursor_distance = Some(w.cursor2_line[1] - w.cursor1_line[1])]
            ELSE set_cursor2_position(w, w.cursor1_line[1] + w.cursor_distance[1])
       ELSE w
  ELSE w

on_cursor2_moved(w) ==
  IF w.cursor2_line # None /\ w.current_time # None
  THEN IF w.cursors_locked /\ w.cursor1_line # None
       THEN IF w.cursor_distance = None
            THEN [w EXCEPT !.cursor_distance = Some(w.cursor2_line[1] - w.cursor1_line[1])]
            ELSE set_cursor1_position(w, w.cursor2_line[1] - w.cursor_distance[1])
       ELSE w
  ELSE w

\* InfiniteLine.setValue on a connected line: the signal is emitted when the
\* position changes
cursor1_setValue(w, x) ==
  IF w.cursor1_line = Some(x) THEN w
  ELSE on_cursor1_moved([w EXCEPT !.cursor1_line = Some(x)])

cursor2_setValue(w, x) ==
  IF w.cursor2_line = Some(x) THEN w
  ELSE on_cursor2_moved([w EXCEPT !.cursor2_line = Some(x)])

enable_cursor1(w, view_centre) ==
  LET e == [w EXCEPT !.cursor1_enabled = TRUE]
  IN IF e.cursor1_line = None
     THEN [e EXCEPT !.cursor1_line = Some(view_centre)]
     ELSE IF e.cursor1_line[1] = 0 THEN cursor1_setValue(e, view_centre) ELSE e

enable_cursor2(w, view_centre) ==
  LET e == [w EXCEPT !.cursor2_enabled = TRUE]
  IN IF e.cursor2_line = None
     THEN [e EXCEPT !.cursor2_line = Some(view_centre)]
     ELSE IF e.cursor2_line[1] = 0 THEN cursor2_setValue(e, view_centre) ELSE e

disable_cursor1(w) == [w EXCEPT !.cursor1_enabled = FALSE]

disable_cursor2(w) == [w EXCEPT !.cursor2_enabled = FALSE]

set_cursors_locked(w, locked) == [w EXCEPT !.cursors_locked = locked]

clear_peak_markers(w) == [w EXCEPT !.peak_markers = <<>>]

clear_block_markers(w) == [w EXCEPT !.block_markers = <<>>]

mark_peaks(w, peaks) ==
  IF w.current_time # None THEN [w EXCEPT !.peak_markers = peaks]
  ELSE clear_peak_markers(w)

mark_blocks(w, blocks) == [w EXCEPT !.block_markers = blocks]

plot_sweep(w, sweep_data, baseline_offset, view_centre) ==
  LET p == [w EXCEPT !.current_time = Some(sweep_data.time),
                     !.current_data = Some([trace |-> sweep_data.data,
                                            offset |-> baseline_offset]),
                     !.block_markers = <<>>,
                     !.peak_markers = <<>>]
      c1 == IF p.cursor1_enabled THEN enable_cursor1(p, view_centre) ELSE p
  IN IF c1.cursor2_enabled THEN enable_cursor2(c1, view_centre) ELSE c1

\* ------------------------------------------------------ ABFViewerMainWindow
ABFViewerMainWindow_init ==
  [current_file_path |-> None, peaks |-> <<>>, detected_blocks |-> <<>>,
   baseline_offset_ch0 |-> 0, baseline_offset_ch1 |-> 0,
   filtered_data_ch0 |-> None, filtered_data_ch1 |-> None,
   filtered_time_ch0 |-> None, filtered_time_ch1 |-> None,
   sweep_spin |-> [value |-> 0, maximum |-> 0],
   show_command |-> FALSE]

\* The methods of the main window act on the handler (h), the window's own
\* fields (v) and plot 0 (p); App packs the three.  Plot 1 mirrors plot 0 and
\* is not modelled.
App(h, v, p) == [h |-> h, v |-> v, p |-> p]

update_plot(S, view_centre) ==
  IF ~is_loaded(S.h) THEN S
  ELSE LET orig == IF channel_count(S.h) > 0
                   THEN get_sweep(S.h, S.h.current_sweep, 0) ELSE None
           channel0_sweep ==
             IF orig = None THEN None
             ELSE IF S.v.filtered_data_ch0 # None /\ S.v.filtered_time_ch0 # None
             THEN Some([orig[1] EXCEPT !.time = S.v.filtered_time_ch0[1],
                                       !.data = S.v.filtered_data_ch0[1]])
             ELSE orig
       IN IF channel0_sweep # None
          THEN [S EXCEPT !.p = plot_sweep(S.p, channel0_sweep[1],
                                          S.v.baseline_offset_ch0, view_centre)]
          ELSE S

BlocksOfCurrentSweep(blocks, value) ==
  SelectSeq(blocks, LAMBDA b : b.sweep_number = value)

on_sweep_changed_KeepCache(S, value, view_centre) ==
  IF ~is_loaded(S.h) THEN S
  ELSE update_plot([S EXCEPT !.h = set_current_sweep(S.h, value)], view_centre)

on_sweep_changed(S, value, view_centre) ==
  IF ~is_loaded(S.h) THEN S
  ELSE LET S1 == [S EXCEPT !.h = set_current_sweep(S.h, value),
                           !.v.filtered_data_ch0 = None,
                           !.v.filtered_data_ch1 = None,
                           !.v.filtered_time_ch0 = None,
                           !.v.filtered_time_ch1 = None]
           S2 == update_plot(S1, view_centre)
           current_sweep_blocks == BlocksOfCurrentSweep(S2.v.detected_blocks, value)
       IN IF S2.v.detected_blocks # <<>>
          THEN IF current_sweep_blocks # <<>>
               THEN [S2 EXCEPT !.p = mark_blocks(S2.p, current_sweep_blocks)]
               ELSE [S2 EXCEPT !.p = clear_block_markers(S2.p)]
          ELSE S2

\* QSpinBox: setMaximum pulls a larger value down to the new maximum, and
\* both setters emit valueChanged (connected to on_sweep_changed) when the
\* value changes
sweep_spin_setMaximum(S, maximum, view_centre) ==
  LET S1 == [S EXCEPT !.v.sweep_spin.maximum = maximum]
  IN IF S1.v.sweep_spin.value > maximum
     THEN on_sweep_changed([S1 EXCEPT !.v.sweep_spin.value = maximum], maximum, view_centre)
     ELSE S1

sweep_spin_setValue(S, value, view_centre) ==
  LET bounded == IF value < 0 THEN 0
                 ELSE IF value > S.v.sweep_spin.maximum THEN S.v.sweep_spin.maximum
                 ELSE value
  IN IF bounded = S.v.sweep_spin.value THEN S
     ELSE on_sweep_changed([S EXCEPT !.v.sweep_spin.value = bounded], bounded, view_centre)

update_ui(S, view_centre) ==
  IF ~is_loaded(S.h) THEN S
  ELSE LET S1 == sweep_spin_setMaximum(S, sweep_count(S.h) - 1, view_centre)
           S2 == sweep_spin_setValue(S1, S1.h.current_sweep, view_centre)
       IN update_plot(S2, view_centre)

reset_viewer_state(S) ==
  LET p1 == IF S.p.cursor1_enabled THEN disable_cursor1(S.p) ELSE S.p
      p2 == IF p1.cursor2_enabled THEN disable_cursor2(p1) ELSE p1
      p3 == set_cursors_locked(p2, FALSE)
  IN [S EXCEPT !.v.baseline_offset_ch0 = 0,
               !.v.baseline_offset_ch1 = 0,
               !.v.filtered_data_ch0 = None,
               !.v.filtered_data_ch1 = None,
               !.v.filtered_time_ch0 = None,
               !.v.filtered_time_ch1 = None,
               !.v.peaks = <<>>,
               !.v.detected_blocks = <<>>,
               !.p = clear_block_markers(p3)]

load_file_direct(S, file_path, view_centre) ==
  LET loaded == load_file(S.h, file_path)
  IN IF loaded.value
     THEN LET S1 == reset_viewer_state([S EXCEPT !.h = loaded.handler])
              S2 == IF is_loaded(S1.h)
                    THEN [S1 EXCEPT !.h = set_current_sweep(S1.h, 0)] ELSE S1
              S3 == [S2 EXCEPT !.v.current_file_path = Some(file_path)]
          IN update_ui(S3, view_centre)
     ELSE S

previous_file(S, view_centre) ==
  IF S.v.current_file_path = None THEN S
  ELSE IF S.v.current_file_path[1] > 1
  THEN load_file_direct(S, S.v.current_file_path[1] - 1, view_centre)
  ELSE S

next_file(S, view_centre) ==
  IF S.v.current_file_path = None THEN S
  ELSE IF S.v.current_file_path[1] < Len(Directory)
  THEN load_file_direct(S, S.v.current_file_path[1] + 1, view_centre)
  ELSE S

previous_sweep(S, view_centre) ==
  IF is_loaded(S.h) /\ S.h.current_sweep > 0
  THEN sweep_spin_setValue(S, S.h.current_sweep - 1, view_centre)
  ELSE S

next_sweep(S, view_centre) ==
  IF is_loaded(S.h) /\ S.h.current_sweep < sweep_count(S.h) - 1
  THEN sweep_spin_setValue(S, S.h.current_sweep + 1, view_centre)
  ELSE S

\* The samples between the cursors and the neighbours filtered with them.
\* sigma_samples is (0.1325 / (cutoff / sample_rate)) * sample_rate, and
\* 6 * 0.1325 = 159/200.
FilterPadding(cutoff, sample_rate, start_idx, end_idx, n) ==
  LET padding_needed ==
        IF 2 * cutoff < sample_rate
        THEN (159 * sample_rate * sample_rate) \div (200 * cutoff) + 10
        ELSE 100
  IN Min2(padding_needed, Min2(start_idx, n - end_idx))

CursorSegment(t, cutoff, sample_rate, xa, xb) ==
  LET x1 == Min2(xa, xb)
      x2 == Max2(xa, xb)
      mask_indices == {i \in 0..(Len(t) - 1) : At(t, i) >= x1 /\ At(t, i) <= x2}
  IN IF mask_indices = {} THEN None
     ELSE LET start_idx == CHOOSE i \in mask_indices : \A j \in mask_indices : i <= j
              end_idx == (CHOOSE i \in mask_indices : \A j \in mask_indices : i >= j) + 1
              padding == FilterPadding(cutoff, sample_rate, start_idx, end_idx, Len(t))
          IN Some([start_idx |-> start_idx, end_idx |-> end_idx, padding |-> padding,
                   padded_start |-> IF padding > 0 THEN Max2(0, start_idx - padding)
                                    ELSE start_idx,
                   padded_end |-> IF padding > 0 THEN Min2(Len(t), end_idx + padding)
                                  ELSE end_idx])

\* one more pass over an array: the array changes when the filter does not
\* fall back to returning its input
FilterTrace(trace, cutoff, sample_rate) ==
  IF gaussian_lowpass_filter(trace, cutoff, sample_rate).value.applied = "none"
  THEN trace
  ELSE [trace EXCEPT !.passes = @ + 1]

FilterChannel(S, sweep, filtered_data, cutoff, between, xa, xb) ==
  LET current_data == IF filtered_data # None THEN filtered_data[1] ELSE sweep.data
      t == sweepX(sweep.data.file)
  IN IF between
     THEN IF CursorSegment(t, cutoff, sweep.sample_rate, xa, xb) # None
          THEN FilterTrace(current_data, cutoff, sweep.sample_rate)
          ELSE current_data
     ELSE FilterTrace(current_data, cutoff, sweep.sample_rate)

CursorX(line) == IF line # None THEN line[1] ELSE 0

toggle_cursor1(S, enabled, view_centre) ==
  IF enabled THEN [S EXCEPT !.p = enable_cursor1(S.p, view_centre)]
  ELSE [S EXCEPT !.p = disable_cursor1(S.p)]

toggle_cursor2(S, enabled, view_centre) ==
  IF enabled THEN [S EXCEPT !.p = enable_cursor2(S.p, view_centre)]
  ELSE [S EXCEPT !.p = disable_cursor2(S.p)]

apply_filter(S, cutoff, channel, between, view_centre) ==
  IF ~is_loaded(S.h) THEN S
  ELSE IF get_sweep(S.h, S.h.current_sweep, 0) = None THEN S
  ELSE IF between /\ ~(S.p.cursor1_enabled /\ S.p.cursor2_enabled) THEN S
  ELSE LET x1 == CursorX(S.p.cursor1_line)
           x2 == CursorX(S.p.cursor2_line)
           sweep_ch0 == get_sweep(S.h, S.h.current_sweep, 0)
           sweep_ch1 == get_sweep(S.h, S.h.current_sweep, 1)
           S0 == IF channel \in {0, 0 - 1} /\ sweep_ch0 # None
                 THEN [S EXCEPT
                         !.v.filtered_data_ch0 =
                            Some(FilterChannel(S, sweep_ch0[1], S.v.filtered_data_ch0,
                                               cutoff, between, x1, x2)),
                         !.v.filtered_time_ch0 =
                            IF S.v.filtered_data_ch0 # None
                            THEN S.v.filtered_time_ch0 ELSE Some(sweep_ch0[1].time)]
                 ELSE S
           S1 == IF channel \in {1, 0 - 1} /\ channel_count(S.h) > 1 /\ sweep_ch1 # None
                 THEN [S0 EXCEPT
                         !.v.filtered_data_ch1 =
                            Some(FilterChannel(S, sweep_ch1[1], S.v.filtered_data_ch1,
                                               cutoff, between, x1, x2)),
                         !.v.filtered_time_ch1 =
                            IF S.v.filtered_data_ch1 # None
                            THEN S.v.filtered_time_ch1 ELSE Some(sweep_ch1[1].time)]
                 ELSE S0
       IN IF channel = 1 /\ channel_count(S.h) <= 1 THEN S0
          ELSE update_plot(S1, view_centre)

\* The samples of a sweep between the cursors (mask = x1 <= time <= x2), as
\* the analysis slots cut them out of the recorded sweep.
MaskIndices(t, xa, xb) ==
  {i \in 0..(Len(t) - 1) : At(t, i) >= Min2(xa, xb) /\ At(t, i) <= Max2(xa, xb)}

MaskLo(t, xa, xb) ==
  CHOOSE i \in MaskIndices(t, xa, xb) : \A j \in MaskIndices(t, xa, xb) : i <= j

MaskHi(t, xa, xb) ==
  CHOOSE i \in MaskIndices(t, xa, xb) : \A j \in MaskIndices(t, xa, xb) : i >= j

Segment(sweep, xa, xb) ==
  LET t == sweepX(sweep.data.file)
      y == sweepY(sweep.data.file, sweep.data.sweep, sweep.data.channel)
  IN IF MaskIndices(t, xa, xb) = {} THEN None
     ELSE Some([sweep_number |-> sweep.sweep_number, channel |-> sweep.channel,
                data |-> Slice(y, MaskLo(t, xa, xb), MaskHi(t, xa, xb) + 1),
                time |-> Slice(t, MaskLo(t, xa, xb), MaskHi(t, xa, xb) + 1)])

\* detect_peaks reads the sweep from the handler (get_sweep) and hands the
\* samples between the cursors to the engine
detect_peaks(S, height, distance, prominence, find_max) ==
  IF ~is_loaded(S.h) THEN S
  ELSE IF ~(S.p.cursor1_enabled /\ S.p.cursor2_enabled) THEN S
  ELSE LET x1 == CursorX(S.p.cursor1_line)
           x2 == CursorX(S.p.cursor2_line)
           sweep == get_sweep(S.h, S.h.current_sweep, 0)
       IN IF sweep = None THEN S
          ELSE LET segment == Segment(sweep[1], x1, x2)
               IN IF segment = None THEN S
                  ELSE LET found == find_peaks(segment[1].data, segment[1].time, height,
                                               distance, prominence, find_max)
                           start_idx == MaskLo(sweepX(sweep[1].data.file), x1, x2)
                           peaks == [k \in 1..Len(found.value) |->
                                       [found.value[k] EXCEPT !.index = @ + start_idx]]
                       IN IF found.exc # "" THEN S
                          ELSE [S EXCEPT !.v.peaks = peaks,
                                         !.p = mark_peaks(S.p, peaks)]

RECURSIVE SegmentSweeps(_, _, _)
SegmentSweeps(sweep_list, xa, xb) ==
  IF sweep_list = <<>> THEN <<>>
  ELSE (IF Segment(Head(sweep_list), xa, xb) = None THEN <<>>
        ELSE <<Segment(Head(sweep_list), xa, xb)[1]>>)
       \o SegmentSweeps(Tail(sweep_list), xa, xb)

viewer_detect_blocks(S, baseline_threshold, block_threshold_factor, min_duration) ==
  IF ~is_loaded(S.h) THEN S
  ELSE IF ~(S.p.cursor1_enabled /\ S.p.cursor2_enabled) THEN S
  ELSE LET x1 == CursorX(S.p.cursor1_line)
           x2 == CursorX(S.p.cursor2_line)
           segment_sweeps == SegmentSweeps(get_all_sweeps(S.h, 0), x1, x2)
       IN IF segment_sweeps = <<>> THEN S
          ELSE LET all_blocks == detect_blocks_multiple_sweeps(
                                   segment_sweeps, baseline_threshold,
                                   block_threshold_factor, min_duration).value
                   S1 == [S EXCEPT !.v.detected_blocks = all_blocks]
                   current_sweep_blocks ==
                     BlocksOfCurrentSweep(all_blocks, S.h.current_sweep)
               IN IF all_blocks = <<>> THEN S1
                  ELSE IF current_sweep_blocks # <<>>
                  THEN [S1 EXCEPT !.p = mark_blocks(S1.p, current_sweep_blocks)]
                  ELSE S1

baseline_correction(S, offset, channel, view_centre) ==
  LET S0 == IF channel \in {0, 0 - 1}
            THEN [S EXCEPT !.v.baseline_offset_ch0 = offset] ELSE S
      S1 == IF channel \in {1, 0 - 1}
            THEN [S0 EXCEPT !.v.baseline_offset_ch1 = offset] ELSE S0
  IN update_plot(S1, view_centre)

toggle_command_waveform(S, show, view_centre) ==
  update_plot([S EXCEPT !.v.show_command = show], view_centre)

clear_blocks(S) ==
  [S EXCEPT !.v.detected_blocks = <<>>, !.p = clear_block_markers(S.p)]

\* the application as constructed: nothing loaded, nothing plotted
InitViewer ==
  /\ handler = ABFHandler_init
  /\ viewer = ABFViewerMainWindow_init
  /\ plot0 = TracePlotWidget_init

\* ------------------------------------------------------------------ actions
\* A caller makes one call on the inputs it holds (op = "none" -> the call's
\* name), reads the result and drops it (Discard) before the next call.
NoArgs == [none |-> TRUE]

InitIdle == op = "none" /\ args = NoArgs /\ result = Return(<<>>)

Discard ==
  /\ op # "none"
  /\ op' = "none" /\ args' = NoArgs /\ result' = Return(<<>>)
  /\ UNCHANGED <<data, time, sweeps, handler, viewer, plot0>>

\* longest min_duration tried, in ticks
MaxMinDuration == 2

DetectEvents ==
  \E threshold \in Vals, direction \in Directions, min_duration \in {0, MaxMinDuration} :
    /\ op = "none"
    /\ op' = "detect_events"
    /\ args' = [threshold |-> threshold, direction |-> direction,
                min_duration |-> min_duration]
    /\ result' = detect_events(data, time, threshold, direction, min_duration)
    /\ UNCHANGED <<data, time, sweeps, handler, viewer, plot0>>

InitEvents ==
  /\ data \in Arrays(MaxLen)
  /\ \E dt \in {1, MaxDt} : time = TimeOf(Len(data), dt)
  /\ sweeps = <<>>
  /\ InitIdle
  /\ InitViewer

NextEvents == DetectEvents \/ Discard

SpecEvents == InitEvents /\ [][NextEvents]_vars

\* ------------------------------------------------------------ detect_blocks
\* longest enumerated array given to the block detector
MaxBlockLen == 3
\* longest two-level sweep
MaxLevelLen == 6
\* largest block_threshold_factor tried
MaxFactor == 3
\* the synthetic three-level sweeps have thirds of 1..MaxThird samples
MaxThird == 10
\* baseline for the first and last third, toward zero for the middle third
ThirdsSweep(k) ==
  [i \in 1..(3 * k) |-> IF i > k /\ i <= 2 * k THEN BlockedLevel ELSE OpenLevel]

\* noise-free sweeps that switch between the open and the blocked level
LevelSweeps == UNION {[1..n -> {OpenLevel, BlockedLevel}] : n \in 1..MaxLevelLen}

BlockInputs ==
  Arrays(MaxBlockLen) \cup LevelSweeps \cup {ThirdsSweep(k) : k \in 1..MaxThird}

BaselineChoices == {None, Some(OpenLevel), Some(-MaxVal), Some(0), Some(MaxVal)}

DetectBlocks ==
  \E baseline_threshold \in BaselineChoices,
     factor \in {0, DefaultBlockThresholdFactor, MaxFactor},
     min_block_duration \in {0, DefaultMinBlockDuration, MaxMinDuration} :
    /\ op = "none"
    /\ op' = "detect_blocks"
    /\ args' = [baseline_threshold |-> baseline_threshold,
                block_threshold_factor |-> factor,
                min_block_duration |-> min_block_duration]
    /\ result' = detect_blocks(data, time, baseline_threshold, factor, min_block_duration)
    /\ UNCHANGED <<data, time, sweeps, handler, viewer, plot0>>

InitBlocks ==
  /\ data \in BlockInputs
  /\ \E dt \in {1, MaxDt} : time = TimeOf(Len(data), dt)
  /\ sweeps = <<>>
  /\ InitIdle
  /\ InitViewer

NextBlocks == DetectBlocks \/ Discard

SpecBlocks == InitBlocks /\ [][NextBlocks]_vars

\* ----------------------------------------------------------------- kinetics
\* peak_idx ranges over -1..len(data): every index and one position outside
\* the array on each side
PeakIndexes(d) == (-1)..Len(d)

RiseTime ==
  \E peak_idx \in PeakIndexes(data),
     percents \in {<<DefaultBaselinePercent, DefaultPeakPercent>>, <<20, 80>>} :
    /\ op = "none"
    /\ op' = "calculate_rise_time"
    /\ args' = [peak_idx |-> peak_idx, baseline_percent |-> percents[1],
                peak_percent |-> percents[2]]
    /\ result' = calculate_rise_time(data, time, peak_idx, percents[1], percents[2])
    /\ UNCHANGED <<data, time, sweeps, handler, viewer, plot0>>

DecayTime ==
  \E peak_idx \in PeakIndexes(data), decay_permille \in {DefaultDecayPermille, 500, 1000} :
    /\ op = "none"
    /\ op' = "calculate_decay_time"
    /\ args' = [peak_idx |-> peak_idx, decay_permille |-> decay_permille]
    /\ result' = calculate_decay_time(data, time, peak_idx, decay_permille)
    /\ UNCHANGED <<data, time, sweeps, handler, viewer, plot0>>

InitKinetics ==
  /\ data \in Arrays(MaxLen)
  /\ \E dt \in {1, MaxDt} : time = TimeOf(Len(data), dt)
  /\ sweeps = <<>>
  /\ InitIdle
  /\ InitViewer

NextKinetics == RiseTime \/ DecayTime \/ Discard

SpecKinetics == InitKinetics /\ [][NextKinetics]_vars

\* ------------------------------------------------------- multi-sweep calls
\* longest array of a sweep in an enumerated sweep list
MaxSweepLen == 3
\* longest single-outlier sweep
MaxSpikeLen == 12

\* one outlier and len - 1 equal samples, with mean 0
SpikeSweep(n) == [i \in 1..n |-> IF i = 1 THEN n - 1 ELSE -1]

\* the second sweep of a two-sweep list
SecondSweeps == Arrays(1) \cup {<<MaxVal, -MaxVal, 0>>}

SweepLists ==
  {<<>>}
    \cup {<<Sweep(0, 0, d, 1)>> :
            d \in Arrays(MaxSweepLen) \cup {SpikeSweep(n) : n \in 2..MaxSpikeLen}}
    \cup {<<Sweep(0, 0, d, 1), Sweep(1, 0, e, 1)>> :
            d \in Arrays(MaxSweepLen - 1), e \in SecondSweeps}

\* (start, end) fractions in tenths: the two default windows, the whole
\* sweep, a window reaching outside the sweep on both sides, an empty one
Windows ==
  {<<DefaultBaselineStart, DefaultBaselineEnd>>,
   <<DefaultResponseStart, DefaultResponseEnd>>,
   <<0, FractionDen>>, <<-5, 15>>, <<5, 5>>}

DetectInserts ==
  \E baseline \in Windows, response \in Windows,
     threshold_factor \in {0, 1, DefaultThresholdFactor, MaxFactor} :
    /\ op = "none"
    /\ op' = "detect_inserts"
    /\ args' = [baseline_start |-> baseline[1], baseline_end |-> baseline[2],
                response_start |-> response[1], response_end |-> response[2],
                threshold_factor |-> threshold_factor]
    /\ result' = detect_inserts(sweeps, baseline[1], baseline[2], response[1],
                                response[2], threshold_factor)
    /\ UNCHANGED <<data, time, sweeps, handler, viewer, plot0>>

DetectBlocksMultipleSweeps ==
  \E baseline_threshold \in {None, Some(-MaxVal), Some(MaxVal)},
     factor \in {0, DefaultMultiSweepFactor},
     min_block_duration \in {0, DefaultMinBlockDuration} :
    /\ op = "none"
    /\ op' = "detect_blocks_multiple_sweeps"
    /\ args' = [baseline_threshold |-> baseline_threshold,
                block_threshold_factor |-> factor,
                min_block_duration |-> min_block_duration]
    /\ result' = detect_blocks_multiple_sweeps(sweeps, baseline_threshold, factor,
                                               min_block_duration)
    /\ UNCHANGED <<data, time, sweeps, handler, viewer, plot0>>

InitSweeps ==
  /\ sweeps \in SweepLists
  /\ data = <<>>
  /\ time = <<>>
  /\ InitIdle
  /\ InitViewer

NextSweeps == DetectInserts \/ DetectBlocksMultipleSweeps \/ Discard

SpecSweeps == InitSweeps /\ [][NextSweeps]_vars

\* ------------------------------------------------------------- statistics
\* largest constant added to the data before the call
MaxShift == 2

\* the caller passes data + c
CalculateStatistics ==
  \E c \in (-MaxShift)..MaxShift :
    /\ op = "none"
    /\ op' = "calculate_statistics"
    /\ args' = [shift |-> c]
    /\ result' = calculate_statistics(Shift(data, c))
    /\ UNCHANGED <<data, time, sweeps, handler, viewer, plot0>>

InitStatistics ==
  /\ data \in Arrays(MaxLen)
  /\ time = TimeOf(Len(data), 1)
  /\ sweeps = <<>>
  /\ InitIdle
  /\ InitViewer

NextStatistics == CalculateStatistics \/ Discard

SpecStatistics == InitStatistics /\ [][NextStatistics]_vars

\* --------------------------------------------------------------- find_peaks
\* longest array given to the peak finder
MaxPeakLen == 5
\* largest distance tried, in samples
MaxDistance == 3
PeakLevels == {-1, 0, 1}

\* every array over the three levels, and a trough that lies above zero and a
\* peak that lies below zero
PeakInputs ==
  UNION {[1..n -> PeakLevels] : n \in 0..MaxPeakLen}
    \cup {<<2, 1, 2>>, <<-2, -1, -2>>}

FindPeaks ==
  \E height \in {None} \cup {Some(h) : h \in {-1, 0, 1, 2}},
     distance \in {None, Some(0), Some(1), Some(MaxDistance)},
     prominence \in {None, Some(1), Some(2)},
     find_max \in BOOLEAN :
    /\ op = "none"
    /\ op' = "find_peaks"
    /\ args' = [height |-> height, distance |-> distance, prominence |-> prominence,
                find_max |-> find_max]
    /\ result' = find_peaks(data, time, height, distance, prominence, find_max)
    /\ UNCHANGED <<data, time, sweeps, handler, viewer, plot0>>

InitPeaks ==
  /\ data \in PeakInputs
  /\ \E dt \in {1, MaxDt} : time = TimeOf(Len(data), dt)
  /\ sweeps = <<>>
  /\ InitIdle
  /\ InitViewer

NextPeaks == FindPeaks \/ Discard

SpecPeaks == InitPeaks /\ [][NextPeaks]_vars

\* ------------------------------------------------------------------ filters
\* longest enumerated array given to a filter
MaxFilterLen == 2
\* sample rates tried are -SampleRate, 0 and SampleRate (Hz); the cutoffs lie
\* below, at and above its Nyquist frequency
SampleRate == 10

FilterInputs == Arrays(MaxFilterLen) \cup {ThirdsSweep(k) : k \in 1..MaxThird}

ScalarCutoffs == {-2, 0, 2, SampleRate \div 2, SampleRate}
SampleRates == {-SampleRate, 0, SampleRate}

FilterData ==
  \E filter_type \in {"lowpass", "highpass", "bandpass", "notch"},
     cutoff \in {<<c>> : c \in ScalarCutoffs} \cup {<<1, 2>>, <<2, 1>>, <<2, SampleRate>>},
     sample_rate \in SampleRates :
    /\ op = "none"
    /\ op' = "filter_data"
    /\ args' = [filter_type |-> filter_type, cutoff |-> cutoff,
                sample_rate |-> sample_rate, order |-> DefaultOrder]
    /\ result' = filter_data(data, filter_type, cutoff, sample_rate, DefaultOrder)
    /\ UNCHANGED <<data, time, sweeps, handler, viewer, plot0>>

GaussianLowpassFilter ==
  \E cutoff_freq \in ScalarCutoffs, sample_rate \in SampleRates :
    /\ op = "none"
    /\ op' = "gaussian_lowpass_filter"
    /\ args' = [cutoff |-> <<cutoff_freq>>, sample_rate |-> sample_rate]
    /\ result' = gaussian_lowpass_filter(data, cutoff_freq, sample_rate)
    /\ UNCHANGED <<data, time, sweeps, handler, viewer, plot0>>

InitFilters ==
  /\ data \in FilterInputs
  /\ time = TimeOf(Len(data), 1)
  /\ sweeps = <<>>
  /\ InitIdle
  /\ InitViewer

NextFilters == FilterData \/ GaussianLowpassFilter \/ Discard

SpecFilters == InitFilters /\ [][NextFilters]_vars

\* ------------------------------------------------------------ whole engine
\* longest array held while every operation of the engine is called in turn
MaxEngineLen == 2

\* mutant: data -= baseline, which writes into the caller's array
BaselineSubtract_InPlace ==
  \E start_idx \in 0..1, end_idx \in {None, Some(1), Some(MaxEngineLen)} :
    /\ op = "none"
    /\ op' = "baseline_subtract"
    /\ args' = [start_idx |-> start_idx, end_idx |-> end_idx]
    /\ result' = baseline_subtract(data, start_idx, end_idx)
    /\ data' = [i \in 1..Len(data) |-> data[i] - data[1]]
    /\ UNCHANGED <<time, sweeps, handler, viewer, plot0>>

BaselineSubtract ==
  \E start_idx \in 0..1, end_idx \in {None, Some(1), Some(MaxEngineLen)} :
    /\ op = "none"
    /\ op' = "baseline_subtract"
    /\ args' = [start_idx |-> start_idx, end_idx |-> end_idx]
    /\ result' = baseline_subtract(data, start_idx, end_idx)
    /\ UNCHANGED <<data, time, sweeps, handler, viewer, plot0>>

\* the arrays of the current sweep, and a list of sweeps holding it
InitEngine ==
  /\ data \in Arrays(MaxEngineLen)
  /\ time = TimeOf(Len(data), 1)
  /\ sweeps \in {<<>>, <<Sweep(0, 0, data, 1)>>,
                 <<Sweep(0, 0, data, 1), Sweep(1, 0, <<MaxVal, -MaxVal, 0>>, 1)>>}
  /\ InitIdle
  /\ InitViewer

NextEngine ==
  \/ FindPeaks
  \/ DetectEvents
  \/ RiseTime
  \/ DecayTime
  \/ BaselineSubtract
  \/ FilterData
  \/ GaussianLowpassFilter
  \/ DetectBlocks
  \/ DetectBlocksMultipleSweeps
  \/ DetectInserts
  \/ Discard

SpecEngine == InitEngine /\ [][NextEngine]_vars

\* -------------------------------------------------- ABFHandler on its own
\* largest sweep number and channel number requested
MaxSweepNumber == 4
MaxChannelNumber == 3

LoadFile ==
  \E file_path \in Paths :
    /\ op = "none"
    /\ op' = "load_file"
    /\ args' = [file_path |-> file_path]
    /\ handler' = load_file(handler, file_path).handler
    /\ result' = Return(load_file(handler, file_path).value)
    /\ UNCHANGED <<data, time, sweeps, viewer, plot0>>

SetCurrentSweep ==
  \E sweep_number \in (0 - 1)..MaxSweepNumber :
    /\ op = "none"
    /\ op' = "set_current_sweep"
    /\ args' = [sweep_number |-> sweep_number]
    /\ handler' = set_current_sweep(handler, sweep_number)
    /\ result' = Return(<<>>)
    /\ UNCHANGED <<data, time, sweeps, viewer, plot0>>

SetCurrentChannel ==
  \E channel \in (0 - 1)..MaxChannelNumber :
    /\ op = "none"
    /\ op' = "set_current_channel"
    /\ args' = [channel |-> channel]
    /\ handler' = set_current_channel(handler, channel)
    /\ result' = Return(<<>>)
    /\ UNCHANGED <<data, time, sweeps, viewer, plot0>>

InitHandler ==
  /\ data = <<>> /\ time = <<>> /\ sweeps = <<>>
  /\ InitIdle
  /\ InitViewer

NextHandler == LoadFile \/ SetCurrentSweep \/ SetCurrentChannel \/ Discard

SpecHandler == InitHandler /\ [][NextHandler]_vars

\* --------------------------------------------- TracePlotWidget on its own
\* cursor positions the user drags to, in ticks
MaxCursorX == 3

CursorPositions == 0..MaxCursorX

PlotSweep ==
  \E view_centre \in CursorPositions :
    /\ op = "none"
    /\ handler.abf # None
    /\ op' = "plot_sweep"
    /\ args' = [sweep_number |-> handler.current_sweep]
    /\ plot0' = plot_sweep(plot0, get_sweep(handler, handler.current_sweep, 0)[1], 0, view_centre)
    /\ result' = Return(<<>>)
    /\ UNCHANGED <<data, time, sweeps, handler, viewer>>

EnableCursor1 ==
  \E view_centre \in CursorPositions :
    /\ op = "none"
    /\ op' = "enable_cursor1"
    /\ args' = [view_centre |-> view_centre]
    /\ plot0' = enable_cursor1(plot0, view_centre)
    /\ result' = Return(<<>>)
    /\ UNCHANGED <<data, time, sweeps, handler, viewer>>

EnableCursor2 ==
  \E view_centre \in CursorPositions :
    /\ op = "none"
    /\ op' = "enable_cursor2"
    /\ args' = [view_centre |-> view_centre]
    /\ plot0' = enable_cursor2(plot0, view_centre)
    /\ result' = Return(<<>>)
    /\ UNCHANGED <<data, time, sweeps, handler, viewer>>

\* the user drags an enabled cursor line
MoveCursor1 ==
  \E x \in CursorPositions :
    /\ op = "none"
    /\ plot0.cursor1_enabled
    /\ op' = "move_cursor1"
    /\ args' = [x |-> x]
    /\ plot0' = cursor1_setValue(plot0, x)
    /\ result' = Return(<<>>)
    /\ UNCHANGED <<data, time, sweeps, handler, viewer>>

MoveCursor2 ==
  \E x \in CursorPositions :
    /\ op = "none"
    /\ plot0.cursor2_enabled
    /\ op' = "move_cursor2"
    /\ args' = [x |-> x]
    /\ plot0' = cursor2_setValue(plot0, x)
    /\ result' = Return(<<>>)
    /\ UNCHANGED <<data, time, sweeps, handler, viewer>>

SetCursorsLocked ==
  \E locked \in BOOLEAN :
    /\ op = "none"
    /\ op' = "set_cursors_locked"
    /\ args' = [locked |-> locked]
    /\ plot0' = set_cursors_locked(plot0, locked)
    /\ result' = Return(<<>>)
    /\ UNCHANGED <<data, time, sweeps, handler, viewer>>

\* a widget showing the first sweep of the first file
InitCursors ==
  /\ data = <<>> /\ time = <<>> /\ sweeps = <<>>
  /\ InitIdle
  /\ handler = load_file(ABFHandler_init, 1).handler
  /\ viewer = ABFViewerMainWindow_init
  /\ plot0 = TracePlotWidget_init

NextCursors ==
  \/ PlotSweep \/ EnableCursor1 \/ EnableCursor2
  \/ MoveCursor1 \/ MoveCursor2 \/ SetCursorsLocked \/ Discard

SpecCursors == InitCursors /\ [][NextCursors]_vars

\* ------------------------------------------------------- the viewer window
\* A slot of the main window runs to completion on the application state and
\* leaves its name and the choices made in its dialog in op and args.
Cur == App(handler, viewer, plot0)

ViewerStep(name, a, S) ==
  /\ op' = name
  /\ args' = a
  /\ result' = Return(<<>>)
  /\ handler' = S.h /\ viewer' = S.v /\ plot0' = S.p
  /\ UNCHANGED <<data, time, sweeps>>

\* a cutoff below the Nyquist frequency of every file, in Hz
CutoffInBand == 400
\* most filter passes applied to one sweep
MaxFilterPasses == 2

Cutoffs == {CutoffInBand, sample_rate_of(handler) \div 2}

OpenFile ==
  \E file_path \in Paths, view_centre \in CursorPositions :
    /\ op = "none"
    /\ ViewerStep("open_file", [file_path |-> file_path],
               load_file_direct(Cur, file_path, view_centre))

PreviousFile ==
  \E view_centre \in CursorPositions :
    /\ op = "none"
    /\ ViewerStep("previous_file", NoArgs, previous_file(Cur, view_centre))

NextFile ==
  \E view_centre \in CursorPositions :
    /\ op = "none"
    /\ ViewerStep("next_file", NoArgs, next_file(Cur, view_centre))

\* the user types or steps the sweep spin box (enabled once a file is loaded)
SweepSpinEdited ==
  \E value \in 0..viewer.sweep_spin.maximum, view_centre \in CursorPositions :
    /\ op = "none"
    /\ is_loaded(handler)
    /\ value # viewer.sweep_spin.value
    /\ ViewerStep("on_sweep_changed", [value |-> value],
                  sweep_spin_setValue(Cur, value, view_centre))

PreviousSweep ==
  \E view_centre \in CursorPositions :
    /\ op = "none"
    /\ ViewerStep("previous_sweep", NoArgs, previous_sweep(Cur, view_centre))

NextSweep ==
  \E view_centre \in CursorPositions :
    /\ op = "none"
    /\ ViewerStep("next_sweep", NoArgs, next_sweep(Cur, view_centre))

ToggleCursor1 ==
  \E view_centre \in CursorPositions :
    /\ op = "none"
    /\ ViewerStep("toggle_cursor1", [enabled |-> ~plot0.cursor1_enabled],
               toggle_cursor1(Cur, ~plot0.cursor1_enabled, view_centre))

ToggleCursor2 ==
  \E view_centre \in CursorPositions :
    /\ op = "none"
    /\ ViewerStep("toggle_cursor2", [enabled |-> ~plot0.cursor2_enabled],
               toggle_cursor2(Cur, ~plot0.cursor2_enabled, view_centre))

PassesOf(filtered_data) == IF filtered_data = None THEN 0 ELSE filtered_data[1].passes

ApplyFilter ==
  \E cutoff \in Cutoffs, channel \in {0, 1, 0 - 1}, between \in BOOLEAN, view_centre \in CursorPositions :
    /\ op = "none"
    /\ is_loaded(handler)
    /\ PassesOf(viewer.filtered_data_ch0) < MaxFilterPasses
    /\ PassesOf(viewer.filtered_data_ch1) < MaxFilterPasses
    /\ ViewerStep("apply_filter",
                  [cutoff |-> cutoff, channel |-> channel,
                   filter_between_cursors |-> between,
                   segment |-> IF between /\ plot0.cursor1_enabled /\ plot0.cursor2_enabled
                               THEN CursorSegment(sweepX(handler.abf[1]), cutoff,
                                                  sample_rate_of(handler),
                                                  CursorX(plot0.cursor1_line),
                                                  CursorX(plot0.cursor2_line))
                               ELSE None],
                  apply_filter(Cur, cutoff, channel, between, view_centre))

InitWindow ==
  /\ data = <<>> /\ time = <<>> /\ sweeps = <<>>
  /\ InitIdle
  /\ InitViewer

NextWindow ==
  \/ OpenFile \/ PreviousFile \/ NextFile
  \/ SweepSpinEdited \/ PreviousSweep \/ NextSweep
  \/ ToggleCursor1 \/ ToggleCursor2 \/ ApplyFilter \/ Discard

SpecWindow == InitWindow /\ [][NextWindow]_vars

\* ------------------------------------------- analysis slots of the viewer
\* longest min_duration the block dialog accepts, in ticks (1.0 s)
MaxDialogDuration == 1000

DetectPeaks ==
  \E height \in {None, Some(0)}, find_max \in BOOLEAN :
    /\ op = "none"
    /\ is_loaded(handler)
    /\ plot0.cursor1_enabled /\ plot0.cursor2_enabled
    /\ ViewerStep("detect_peaks",
                  [height |-> height, distance |-> Some(1), prominence |-> None,
                   find_max |-> find_max,
                   data |-> get_sweep(handler, handler.current_sweep, 0)[1].data],
                  detect_peaks(Cur, height, Some(1), None, find_max))

ViewerDetectBlocks ==
  \E min_duration \in {DefaultMinBlockDuration, MaxDialogDuration} :
    /\ op = "none"
    /\ is_loaded(handler)
    /\ plot0.cursor1_enabled /\ plot0.cursor2_enabled
    /\ ViewerStep("detect_blocks",
                  [baseline_threshold |-> Some(OpenLevel),
                   block_threshold_factor |-> DefaultBlockThresholdFactor,
                   min_duration |-> min_duration],
                  viewer_detect_blocks(Cur, Some(OpenLevel), DefaultBlockThresholdFactor,
                                       min_duration))

BaselineCorrection ==
  \E offset \in {0, OpenLevel}, channel \in {0, 0 - 1}, view_centre \in CursorPositions :
    /\ op = "none"
    /\ ViewerStep("baseline_correction", [offset |-> offset, channel |-> channel],
                  baseline_correction(Cur, offset, channel, view_centre))

ToggleCommandWaveform ==
  \E view_centre \in CursorPositions :
    /\ op = "none"
    /\ ViewerStep("toggle_command_waveform", [show |-> ~viewer.show_command],
                  toggle_command_waveform(Cur, ~viewer.show_command, view_centre))

ClearBlocks ==
  /\ op = "none"
  /\ ViewerStep("clear_blocks", NoArgs, clear_blocks(Cur))

\* The first file is open and the user has switched both cursors on and
\* dragged them onto the sweep.
Placed(S, x1, x2) ==
  [S EXCEPT !.p.cursor1_enabled = TRUE, !.p.cursor1_line = Some(x1),
            !.p.cursor2_enabled = TRUE, !.p.cursor2_line = Some(x2)]

InitAnalysis ==
  /\ data = <<>> /\ time = <<>> /\ sweeps = <<>>
  /\ InitIdle
  /\ \E x1 \in CursorPositions, x2 \in CursorPositions :
       LET S == Placed(load_file_direct(App(ABFHandler_init, ABFViewerMainWindow_init,
                                            TracePlotWidget_init), 1, 0), x1, x2)
       IN handler = S.h /\ viewer = S.v /\ plot0 = S.p

NextPeakView == ApplyFilter \/ DetectPeaks \/ SweepSpinEdited \/ Discard

SpecPeakView == InitAnalysis /\ [][NextPeakView]_vars

NextBlockView ==
  \/ ViewerDetectBlocks \/ SweepSpinEdited \/ ApplyFilter \/ BaselineCorrection
  \/ ToggleCommandWaveform \/ ClearBlocks \/ Discard

SpecBlockView == InitAnalysis /\ [][NextBlockView]_vars

\* ---------------------------------------- filtering part of a long sweep
\* The long recording is open and both cursors are somewhere on it.
InitPadding ==
  /\ data = <<>> /\ time = <<>> /\ sweeps = <<>>
  /\ InitIdle
  /\ \E x1 \in 0..(MaxTraceLen - 1), x2 \in 0..(MaxTraceLen - 1) :
       LET S == Placed(load_file_direct(App(ABFHandler_init, ABFViewerMainWindow_init,
                                            TracePlotWidget_init), Len(Directory), 0),
                       x1, x2)
       IN handler = S.h /\ viewer = S.v /\ plot0 = S.p

NextPadding == ApplyFilter \/ Discard

SpecPadding == InitPadding /\ [][NextPadding]_vars

\* ------------------------------------------------------------------ claims
\* C3: every (start_idx, end_idx) pair returned by detect_events is inclusive
\* (every sample of the range satisfies the threshold mask), and the pairs are
\* ascending and do not overlap.
C3_EventsInclusive ==
  (op = "detect_events" /\ result.exc = "") =>
    LET ev == result.value
        mask == EventMask(data, args.threshold, args.direction)
    IN  /\ \A k \in 1..Len(ev) :
             /\ ev[k][1] <= ev[k][2]
             /\ \A i \in ev[k][1]..ev[k][2] : At(mask, i)
        /\ \A k \in 1..(Len(ev) - 1) : ev[k][2] < ev[k + 1][1]

\* the samples covered by a list of (start_idx, end_idx) pairs
Covered(ev) == UNION {ev[k][1]..ev[k][2] : k \in 1..Len(ev)}
EventsHolding(ev, i) == {k \in 1..Len(ev) : i \in ev[k][1]..ev[k][2]}

\* C7: with min_duration 0 the 'above' events and the 'below' events for one
\* threshold t are disjoint, and every sample with data # t lies in exactly
\* one event of the matching direction.
C7_AboveBelowPartition ==
  (op = "detect_events" /\ result.exc = "" /\ args.min_duration = 0
     /\ args.direction = "above") =>
    LET above == result.value
        below == detect_events(data, time, args.threshold, "below", 0).value
    IN  /\ Covered(above) \cap Covered(below) = {}
        /\ \A i \in 0..(Len(data) - 1) :
             /\ At(data, i) > args.threshold => Cardinality(EventsHolding(above, i)) = 1
             /\ At(data, i) < args.threshold => Cardinality(EventsHolding(below, i)) = 1

\* C1: detect_blocks with default parameters on the noise-free three-level
\* sweep (first and last third -0.25, middle third -0.05) returns exactly one
\* block, within one sample of the middle third, with baseline -0.25,
\* average amplitude about -0.05 and depth about 0.20.
C1_ThirdsSweepOneBlock ==
  \A k \in 1..MaxThird :
    (op = "detect_blocks" /\ data = ThirdsSweep(k)
       /\ args.baseline_threshold = None
       /\ args.block_threshold_factor = DefaultBlockThresholdFactor
       /\ args.min_block_duration = DefaultMinBlockDuration) =>
      /\ result.exc = ""
      /\ Len(result.value) = 1
      /\ LET b == result.value[1]
         IN  /\ Abs(b.start_idx - k) <= 1
             /\ Abs(b.end_idx - (2 * k - 1)) <= 1
             /\ RatEq(b.baseline_amplitude, Rat(OpenLevel, 1))
             /\ Abs(b.average_amplitude.num - BlockedLevel * b.average_amplitude.den)
                  <= b.average_amplitude.den
             /\ Abs(b.block_depth.num - (BlockedLevel - OpenLevel) * b.block_depth.den)
                  <= b.block_depth.den

\* C2: every event of detect_blocks spans exactly one maximal in-block run:
\* all samples of [start_idx, end_idx] are in-block, the neighbours outside are
\* not, and average_amplitude is the mean of the samples of the run.
C2_BlockIsMaximalRun ==
  (op = "detect_blocks" /\ result.exc = "") =>
    LET b2 == BaselineAmplitude2(data, args.baseline_threshold)
        in_block == InBlock(data, b2, args.block_threshold_factor)
        n == Len(data)
    IN  \A k \in 1..Len(result.value) :
          LET b == result.value[k]
              run == {i \in 0..(n - 1) : b.start_idx <= i /\ i <= b.end_idx /\ At(in_block, i)}
          IN  /\ b.start_idx <= b.end_idx
              /\ \A i \in b.start_idx..b.end_idx : At(in_block, i)
              /\ b.start_idx > 0 => ~At(in_block, b.start_idx - 1)
              /\ b.end_idx < n - 1 => ~At(in_block, b.end_idx + 1)
              /\ RatEq(b.average_amplitude,
                       Rat(SumSeq(Slice(data, b.start_idx, b.end_idx + 1)),
                           b.end_idx - b.start_idx + 1))
              /\ b.average_amplitude.den = Cardinality(run)

WindowLen(sweep, start, end) ==
  Min2(Len(sweep.data), WindowIdx(end, sweep.data)) - Max2(0, WindowIdx(start, sweep.data))

SameWindow ==
  /\ op = "detect_inserts"
  /\ args.response_start = args.baseline_start
  /\ args.response_end = args.baseline_end

\* C6 (as stated): detect_inserts never flags a sweep whose response window
\* is the same slice as its baseline window, whatever the data and the factor.
C6_SameWindowNeverFlagged == SameWindow => result = Return(<<>>)

\* C6 (amended): with the response window equal to the baseline window, a
\* sweep is not flagged when threshold_factor^2 > n - 1, n being the number
\* of samples of the window: every flagged sweep has n - 1 >= threshold_factor^2.
C6_SameWindowFlagNeedsLongWindow ==
  SameWindow =>
    /\ result.exc = ""
    /\ \A k \in 1..Len(result.value) :
         LET sweep == At(sweeps, result.value[k].sweep)
             n == WindowLen(sweep, args.baseline_start, args.baseline_end)
         IN  args.threshold_factor * args.threshold_factor <= n - 1

\* the default factor on a nine-sample window holding an outlier: not flagged
C6_Witness ==
  /\ SameWindow
  /\ args.threshold_factor = DefaultThresholdFactor
  /\ Len(sweeps) = 1
  /\ WindowLen(sweeps[1], args.baseline_start, args.baseline_end) = 9
  /\ MaxOf(sweeps[1].data) # MinOf(sweeps[1].data)
  /\ result = Return(<<>>)

\* C9: every detection operation returns an empty result without raising on
\* empty input: detect_events and detect_blocks on zero-length arrays,
\* detect_blocks_multiple_sweeps and detect_inserts on an empty sweep list or
\* on sweeps with zero-length data.
C9_EmptyInputEmptyResult ==
  /\ (op \in {"detect_events", "detect_blocks"} /\ Len(data) = 0) =>
       result = Return(<<>>)
  /\ (op \in {"detect_blocks_multiple_sweeps", "detect_inserts"}
        /\ \A k \in 1..Len(sweeps) : Len(sweeps[k].data) = 0) =>
       result = Return(<<>>)

\* the Peak records of a call on array d: ascending indices, value = d[index]
\* (not negated), time = time[index], is_max = find_max
PeaksWellFormed(peaks, d, find_max) ==
  /\ \A k \in 1..Len(peaks) :
       /\ peaks[k].value = At(d, peaks[k].index)
       /\ peaks[k].time = At(time, peaks[k].index)
       /\ peaks[k].is_max = find_max
  /\ \A k \in 1..(Len(peaks) - 1) : peaks[k].index < peaks[k + 1].index

\* the call find_peaks(-data, find_max=False) with the arguments of the call
\* find_peaks(data, find_max=True) held in the state
TroughCall ==
  find_peaks(Neg(data), time, args.height, args.distance, args.prominence, FALSE)

PeaksMirrored ==
  /\ TroughCall.exc = result.exc
  /\ Len(TroughCall.value) = Len(result.value)
  /\ \A k \in 1..Len(result.value) : TroughCall.value[k].index = result.value[k].index
  /\ PeaksWellFormed(result.value, data, TRUE)
  /\ PeaksWellFormed(TroughCall.value, Neg(data), FALSE)

\* C8 (as stated): for every height, distance and prominence,
\* find_peaks(data, find_max=True) and find_peaks(-data, find_max=False) with
\* the same arguments report the same indices, ascending, and every Peak has
\* value = (array passed in)[index], time = time[index], is_max = find_max.
C8_PeaksMirroredEveryHeight ==
  (op = "find_peaks" /\ args.find_max) => PeaksMirrored

\* C8 (amended): the same, for every distance and prominence, when no height
\* is supplied (height = None).
C8_PeaksMirroredNoHeight ==
  (op = "find_peaks" /\ args.find_max /\ args.height = None) => PeaksMirrored

\* two maxima of data found, which are two minima of -data
C8_Witness ==
  /\ op = "find_peaks" /\ args.find_max /\ args.height = None
  /\ args.prominence # None
  /\ Len(result.value) = 2
  /\ Len(TroughCall.value) = 2

\* cutoff >= sample_rate / 2, cutoff <= 0 or sample_rate <= 0
OutOfDomain(cutoff_freq, sample_rate) ==
  \/ 2 * cutoff_freq >= sample_rate
  \/ cutoff_freq <= 0
  \/ sample_rate <= 0

\* C10: both filter operations return their input unchanged, and never raise,
\* whenever cutoff >= sample_rate/2, cutoff <= 0 or sample_rate <= 0.
C10_FiltersFallBack ==
  (/\ op \in {"filter_data", "gaussian_lowpass_filter"}
   /\ Len(args.cutoff) = 1
   /\ op = "filter_data" => args.filter_type \in {"lowpass", "highpass"}
   /\ OutOfDomain(args.cutoff[1], args.sample_rate)) =>
    result = Return(Unchanged(data))

\* C11: gaussian_lowpass_filter returns its data argument itself, element for
\* element, whenever cutoff_freq >= sample_rate / 2, cutoff_freq <= 0 or
\* sample_rate <= 0; it filters only when 0 < cutoff_freq < sample_rate / 2.
C11_GaussianIdentityOutsideBand ==
  op = "gaussian_lowpass_filter" =>
    LET cutoff_freq == args.cutoff[1]
        in_band == 0 < cutoff_freq /\ 2 * cutoff_freq < args.sample_rate
    IN  /\ result.exc = ""
        /\ result.value.source = data
        /\ (~in_band) => result.value = Unchanged(data)
        /\ result.value.applied = "gaussian" => in_band

\* a non-empty array passed with the cutoff exactly at the Nyquist frequency
C11_Witness ==
  /\ op = "gaussian_lowpass_filter"
  /\ Len(data) > 0
  /\ args.sample_rate > 0
  /\ 2 * args.cutoff[1] = args.sample_rate
  /\ result = Return(Unchanged(data))

\* the blocks detect_blocks returns for sweep k (1-based) of the list held in
\* the state, with the parameters of the multi-sweep call held in the state
BlocksOfSweep(k) ==
  detect_blocks(sweeps[k].data, sweeps[k].time, args.baseline_threshold,
                args.block_threshold_factor, args.min_block_duration).value

\* the number of events the sweeps before sweep k contribute
BlocksBefore(k) == SumSeq([i \in 1..(k - 1) |-> Len(BlocksOfSweep(i))])

\* C12: detect_blocks_multiple_sweeps returns the concatenation, in list
\* order, of detect_blocks(sweep.data, sweep.time, same parameters) of every
\* sweep, each event tagged with its sweep's sweep_number and channel; a
\* sweep's events are those of the call on that sweep alone, and an ascending
\* input list gives an output grouped by ascending sweep_number.
C12_MultiSweepIsConcatenation ==
  op = "detect_blocks_multiple_sweeps" =>
    /\ result.exc = ""
    /\ Len(result.value) = BlocksBefore(Len(sweeps) + 1)
    /\ \A k \in 1..Len(sweeps) :
         /\ \A j \in 1..Len(BlocksOfSweep(k)) :
              LET event == result.value[BlocksBefore(k) + j]
              IN  /\ event.sweep_number = sweeps[k].sweep_number
                  /\ event.channel = sweeps[k].channel
                  /\ \A f \in DOMAIN BlocksOfSweep(k)[j] :
                       event[f] = BlocksOfSweep(k)[j][f]
                  /\ DOMAIN event = DOMAIN BlocksOfSweep(k)[j] \cup {"sweep_number", "channel"}
         /\ detect_blocks_multiple_sweeps(<<sweeps[k]>>, args.baseline_threshold,
                                          args.block_threshold_factor,
                                          args.min_block_duration).value
              = SubSeq(result.value, BlocksBefore(k) + 1, BlocksBefore(k + 1))
    /\ (\A k \in 1..(Len(sweeps) - 1) : sweeps[k].sweep_number < sweeps[k + 1].sweep_number)
         => \A j \in 1..(Len(result.value) - 1) :
              result.value[j].sweep_number <= result.value[j + 1].sweep_number

\* two sweeps that both hold a block
C12_Witness ==
  /\ op = "detect_blocks_multiple_sweeps"
  /\ Len(sweeps) = 2
  /\ Len(BlocksOfSweep(1)) > 0
  /\ Len(BlocksOfSweep(2)) > 0
  /\ result.value[Len(result.value)].sweep_number = sweeps[2].sweep_number
  /\ result.value[1].sweep_number = sweeps[1].sweep_number

\* p = q + c for rationals p, q and an integer c
RatShifted(p, q, c) == p.num * q.den = (q.num + c * q.den) * p.den

\* C13: for non-empty data and a constant c, calculate_statistics(data + c)
\* has mean, min, max, median, q25 and q75 shifted by exactly c and std,
\* variance and range unchanged; range = max - min and variance is the
\* population variance (the mean squared distance from the mean).
C13_StatisticsShift ==
  (op = "calculate_statistics" /\ Len(data) > 0) =>
    LET shifted == result.value
        plain == calculate_statistics(data).value
        c == args.shift
        n == Len(data)
        squares == SumSeq([i \in 1..n |-> (n * data[i] - SumSeq(data)) * (n * data[i] - SumSeq(data))])
    IN  /\ result.exc = ""
        /\ RatShifted(shifted.mean, plain.mean, c)
        /\ shifted.min = plain.min + c
        /\ shifted.max = plain.max + c
        /\ RatShifted(shifted.median, plain.median, c)
        /\ RatShifted(shifted.q25, plain.q25, c)
        /\ RatShifted(shifted.q75, plain.q75, c)
        /\ shifted.std = plain.std
        /\ RatEq(shifted.variance, plain.variance)
        /\ shifted.range = plain.range
        /\ shifted.range = shifted.max - shifted.min
        /\ RatEq(shifted.variance, Rat(squares, n * n * n))
        /\ shifted.std.w * shifted.variance.den = shifted.variance.num * shifted.std.k * shifted.std.k

\* a non-constant array shifted by a non-zero constant
C13_Witness ==
  /\ op = "calculate_statistics"
  /\ Len(data) = MaxLen
  /\ MaxOf(data) # MinOf(data)
  /\ args.shift # 0
  /\ result.value.range > 0
  /\ result.value.mean.num # SumSeq(data)

\* C14: no engine operation changes the contents of the data and time arrays
\* or of the sweep records passed to it; after any sequence of calls every
\* input equals its value before the calls, also where a filter falls back
\* to returning its input.
C14_InputsNeverChange == [][data' = data /\ time' = time /\ sweeps' = sweeps]_vars

\* a call has returned on a fallback path and the input is what it was: the
\* filter handed back the caller's non-empty array itself
C14_Witness ==
  /\ op \in {"filter_data", "gaussian_lowpass_filter"}
  /\ Len(data) > 0
  /\ result = Return(Unchanged(data))
  /\ Len(sweeps) > 0
  /\ sweeps[1].data = data

\* the maximal runs of true samples of a mask, as (first, last) 0-based pairs
MaximalRuns(mask) ==
  {p \in (0..(Len(mask) - 1)) \X (0..(Len(mask) - 1)) :
     /\ p[1] <= p[2]
     /\ \A i \in p[1]..p[2] : At(mask, i)
     /\ p[1] = 0 \/ ~At(mask, p[1] - 1)
     /\ p[2] = Len(mask) - 1 \/ ~At(mask, p[2] + 1)}

\* C15: in detect_events a maximal run of mask-true samples is reported (a
\* returned pair ends at the run's last sample) if and only if its length in
\* samples is at least min_samples = int(min_duration * len(time) /
\* (time[-1] - time[0])), alike for a run that starts at index 0, one that
\* ends at the last index and one in the interior.
C15_RunReportedIffLongEnough ==
  (op = "detect_events" /\ result.exc = "") =>
    LET mask == EventMask(data, args.threshold, args.direction)
        min_samples == EventMinSamples(time, args.min_duration)
    IN  \A run \in MaximalRuns(mask) :
          (\E k \in 1..Len(result.value) : result.value[k][2] = run[2])
            <=> (run[2] - run[1] + 1 >= min_samples)

\* the in_block mask of the detect_blocks call held in the state
InBlockOfCall ==
  InBlock(data, BaselineAmplitude2(data, args.baseline_threshold),
          args.block_threshold_factor)

\* a BlockEvent was produced for the in-block run
Emitted(run) == \E k \in 1..Len(result.value) : result.value[k].start_idx = run[1]

\* C16: in detect_blocks an in-block run produces a BlockEvent if and only
\* if it meets the minimum duration, by the same test whether the run ends
\* at the last sample of the array or in the interior: two runs of equal
\* length are both emitted or both dropped, and a run at least as long as an
\* emitted one is emitted.
C16_EqualRunsSameFate ==
  (op = "detect_blocks" /\ Len(data) > 0) =>
    /\ result.exc = ""
    /\ \A r1, r2 \in MaximalRuns(InBlockOfCall) :
         (r2[2] - r2[1] >= r1[2] - r1[1] /\ Emitted(r1)) => Emitted(r2)

\* the positions i < peak_idx of the call held in the state at which the data
\* rises through the target of the given percent: data[i] is below the
\* target and data[i + 1] has reached it
UpwardCrossings(percent) ==
  LET baseline100 == Percentile100(Slice(data, 0, args.peak_idx), args.baseline_percent)
      target == RiseTarget10000(baseline100, At(data, args.peak_idx), percent)
  IN  {i \in 0..(args.peak_idx - 1) :
         10000 * At(data, i) < target /\ 10000 * At(data, i + 1) >= target}

LastOf(S) == CHOOSE i \in S : \A j \in S : j <= i

\* C17: when calculate_rise_time returns a number it is time[h] - time[l],
\* l and h being the last upward crossings of target_low and target_high in
\* data[0..peak_idx] with h > l, so the number is strictly positive; it
\* returns None when a crossing is missing or h <= l, never 0 or a negative.
C17_RiseTimePositive ==
  (op = "calculate_rise_time" /\ args.peak_idx >= 1 /\ args.peak_idx < Len(data)) =>
    LET lows == UpwardCrossings(args.baseline_percent)
        highs == UpwardCrossings(args.peak_percent)
    IN  /\ result.exc = ""
        /\ IF lows # {} /\ highs # {} /\ LastOf(highs) > LastOf(lows)
           THEN result.value = Some(At(time, LastOf(highs)) - At(time, LastOf(lows)))
           ELSE result.value = None
        /\ result.value # None => Val(result.value) > 0

\* a ramp: a positive rise time is returned
C17_Witness ==
  /\ op = "calculate_rise_time"
  /\ result.exc = ""
  /\ result.value # None
  /\ Val(result.value) > 0
  /\ UpwardCrossings(args.baseline_percent) # UpwardCrossings(args.peak_percent)

\* int(fraction * n) for a fraction given in tenths: fraction * n / 10 with
\* its fractional part dropped
IntOfFraction(fraction, n) ==
  CHOOSE k \in (-2 * n - 1)..(2 * n + 1) :
    IF fraction * n >= 0
    THEN FractionDen * k <= fraction * n /\ fraction * n < FractionDen * (k + 1)
    ELSE FractionDen * (k - 1) < fraction * n /\ fraction * n <= FractionDen * k

\* the index window [start, end) a pair of fractions gives on n samples after
\* conversion and clamping
ClampedWindow(start, end, n) ==
  <<Max2(0, IntOfFraction(start, n)), Min2(n, IntOfFraction(end, n))>>

\* C18: in detect_inserts, for every sweep and every choice of the window
\* fractions (negative ones and ones above 1 included), statistics are taken
\* only over index windows with 0 <= start < end <= len(data); a sweep with
\* an empty baseline or response window is skipped without raising; the
\* result holds at most one record per sweep, ascending in list position.
C18_InsertWindowsValid ==
  op = "detect_inserts" =>
    /\ result.exc = ""
    /\ \A j \in 1..Len(result.value) :
         LET record == result.value[j]
         IN  /\ record.sweep \in 0..(Len(sweeps) - 1)
             /\ j < Len(result.value) => record.sweep < result.value[j + 1].sweep
             /\ LET d == At(sweeps, record.sweep).data
                    bw == ClampedWindow(args.baseline_start, args.baseline_end, Len(d))
                    rw == ClampedWindow(args.response_start, args.response_end, Len(d))
                IN  /\ 0 <= bw[1] /\ bw[1] < bw[2] /\ bw[2] <= Len(d)
                    /\ 0 <= rw[1] /\ rw[1] < rw[2] /\ rw[2] <= Len(d)
                    /\ RatEq(record.baseline_mean,
                             Rat(SumSeq(Slice(d, bw[1], bw[2])), bw[2] - bw[1]))
                    /\ RatEq(record.response_mean,
                             Rat(SumSeq(Slice(d, rw[1], rw[2])), rw[2] - rw[1]))
                    /\ record.response_max = MaxOf(Slice(d, rw[1], rw[2]))
                    /\ record.response_min = MinOf(Slice(d, rw[1], rw[2]))

\* windows reaching outside the sweep on both sides: the empty first sweep
\* is skipped and the second sweep is recorded
C18_Witness ==
  /\ op = "detect_inserts"
  /\ args.baseline_start < 0
  /\ args.response_end > FractionDen
  /\ Len(sweeps) = 2
  /\ Len(sweeps[1].data) = 0
  /\ Len(result.value) = 1
  /\ result.value[1].sweep = 1

\* C19: for trough detection (find_max = False) every supplied height h, 0
\* included, is negated and applied to the negated data: every reported
\* trough has data[index] <= h; only height = None leaves the troughs
\* unconstrained.
C19_TroughHeightEveryValue ==
  (op = "find_peaks" /\ ~args.find_max /\ args.height # None /\ result.exc = "") =>
    \A k \in 1..Len(result.value) :
      At(data, result.value[k].index) <= Val(args.height)

\* C20: in detect_blocks a higher block_threshold_factor is more
\* conservative: for the same data, time and baseline every sample that is
\* in-block with a factor f2 >= f1 >= 0 is in-block with f1, for a negative,
\* a positive and a zero baseline.
C20_HigherFactorFewerSamples ==
  (op = "detect_blocks" /\ Len(data) > 0) =>
    \A f2 \in args.block_threshold_factor..MaxFactor :
      LET wider == InBlock(data, BaselineAmplitude2(data, args.baseline_threshold), f2)
      IN  \A i \in 1..Len(data) : wider[i] => InBlockOfCall[i]

\* C25: in detect_blocks, after the handling of in_block[0] and in_block[-1]
\* the lists of block starts and ends have the same length, starts[k] <=
\* ends[k] < starts[k+1], every index lies in 0..len(data)-1, the mismatch
\* fix-up adds nothing, and the emitted events ascend and never overlap.
C25_StartsEndsPaired ==
  (op = "detect_blocks" /\ Len(data) > 0) =>
    LET starts == BlockStartsEdge(InBlockOfCall)
        ends == BlockEndsEdge(InBlockOfCall)
    IN  /\ Len(starts) = Len(ends)
        /\ BlockStarts(InBlockOfCall) = starts
        /\ BlockEnds(InBlockOfCall) = ends
        /\ \A k \in 1..Len(starts) :
             /\ 0 <= starts[k] /\ starts[k] <= ends[k] /\ ends[k] <= Len(data) - 1
             /\ k < Len(starts) => ends[k] < starts[k + 1]
        /\ \A k \in 1..(Len(result.value) - 1) :
             result.value[k].end_idx < result.value[k + 1].start_idx

\* a run touching each boundary and one in the interior, all three emitted
C25_Witness ==
  /\ op = "detect_blocks"
  /\ Len(data) > 0
  /\ InBlockOfCall[1]
  /\ InBlockOfCall[Len(data)]
  /\ Len(BlockStartsEdge(InBlockOfCall)) = 3
  /\ Len(result.value) = 3

\* C26: for a non-zero baseline every BlockEvent of detect_blocks is a
\* movement toward zero and not past it: average_amplitude has the sign of
\* the baseline, |average_amplitude| < |baseline_amplitude|, block_depth > 0,
\* and no sample of [start_idx, end_idx] lies beyond the baseline or on the
\* other side of zero.
C26_BlocksTowardZero ==
  (op = "detect_blocks" /\ Len(data) > 0
     /\ BaselineAmplitude2(data, args.baseline_threshold) # 0) =>
    LET b2 == BaselineAmplitude2(data, args.baseline_threshold)
    IN  \A k \in 1..Len(result.value) :
          LET event == result.value[k]
          IN  /\ event.average_amplitude.num * b2 > 0
              /\ 2 * Abs(event.average_amplitude.num) < Abs(b2) * event.average_amplitude.den
              /\ event.block_depth.num > 0
              /\ \A i \in event.start_idx..event.end_idx :
                   At(data, i) * b2 >= 0 /\ 2 * Abs(At(data, i)) <= Abs(b2)

\* C27: calculate_decay_time returns None or the time from the peak to the
\* first later sample below the target, a strictly positive number; it never
\* returns 0, the peak sample itself never being the decay point, for a
\* positive, a zero and a negative peak value and every decay_percent.
C27_DecayTimePositive ==
  (op = "calculate_decay_time" /\ result.exc = "" /\ result.value # None) =>
    Val(result.value) > 0

\* C28: after any sequence of load_file, set_current_sweep and
\* set_current_channel calls, a loaded file with at least one sweep and one
\* channel has 0 <= current_sweep < sweep_count and 0 <= current_channel <
\* channel_count; an out-of-range set request changes nothing, a successful
\* load resets both to 0, and a failed load returns False and leaves the
\* loaded file, file_path, current_sweep and current_channel as they were.
C28_InRange ==
  (is_loaded(handler) /\ sweep_count(handler) >= 1 /\ channel_count(handler) >= 1)
    => /\ 0 <= handler.current_sweep /\ handler.current_sweep < sweep_count(handler)
       /\ 0 <= handler.current_channel /\ handler.current_channel < channel_count(handler)

C28_Step ==
  /\ (op' = "set_current_sweep"
        /\ ~(0 <= args'.sweep_number /\ args'.sweep_number < sweep_count(handler)))
       => handler' = handler
  /\ (op' = "set_current_channel"
        /\ ~(0 <= args'.channel /\ args'.channel < channel_count(handler)))
       => handler' = handler
  /\ (op' = "load_file" /\ Directory[args'.file_path].readable)
       => /\ result' = Return(TRUE)
          /\ handler'.abf = Some(args'.file_path)
          /\ handler'.current_sweep = 0 /\ handler'.current_channel = 0
  /\ (op' = "load_file" /\ ~Directory[args'.file_path].readable)
       => result' = Return(FALSE) /\ handler' = handler

C28_HandlerStaysInRange == []C28_InRange /\ [][C28_Step]_vars

C28_Witness ==
  /\ op = "set_current_sweep"
  /\ is_loaded(handler)
  /\ args.sweep_number >= sweep_count(handler)
  /\ handler.current_sweep = sweep_count(handler) - 1
  /\ handler.current_sweep > 0

\* C23: while the cursors of a TracePlotWidget are locked, every move of one
\* cursor moves the other so that cursor2 - cursor1 stays what it was when
\* the lock was switched on, for the first move after locking and after any
\* sequence of lock, unlock, move and lock again: no step taken with the lock
\* on (before and after it) changes the distance between the two cursors.
BothCursorsShown(w) ==
  /\ w.current_time # None
  /\ w.cursor1_enabled /\ w.cursor2_enabled
  /\ w.cursor1_line # None /\ w.cursor2_line # None

CursorGap(w) == w.cursor2_line[1] - w.cursor1_line[1]

C23_LockedDistanceKept ==
  [][(BothCursorsShown(plot0) /\ plot0.cursors_locked /\ plot0'.cursors_locked)
       => CursorGap(plot0') = CursorGap(plot0)]_vars

\* C24: after every successful file load in the viewer (open_file,
\* previous_file, next_file), whatever sweep was selected and whatever the
\* sweep spin box showed before, the handler's current sweep is 0, the spin
\* box shows 0, the plotted sweep is sweep 0, and the baseline offsets, the
\* cached filtered arrays, the peaks and the detected blocks are back at
\* their initial values.
LoadTarget ==
  IF op' = "open_file" THEN Some(args'.file_path)
  ELSE IF op' = "previous_file" /\ viewer.current_file_path # None
          /\ viewer.current_file_path[1] > 1
  THEN Some(viewer.current_file_path[1] - 1)
  ELSE IF op' = "next_file" /\ viewer.current_file_path # None
          /\ viewer.current_file_path[1] < Len(Directory)
  THEN Some(viewer.current_file_path[1] + 1)
  ELSE None

FreshlyLoaded(h, v, p) ==
  /\ h.current_sweep = 0
  /\ v.sweep_spin.value = 0
  /\ p.current_data # None /\ p.current_data[1].trace.sweep = 0
  /\ v.baseline_offset_ch0 = 0 /\ v.baseline_offset_ch1 = 0
  /\ v.filtered_data_ch0 = None /\ v.filtered_data_ch1 = None
  /\ v.filtered_time_ch0 = None /\ v.filtered_time_ch1 = None
  /\ v.peaks = <<>> /\ v.detected_blocks = <<>>

C24_LoadSelectsFirstSweep ==
  [][(LoadTarget # None /\ Directory[LoadTarget[1]].readable)
       => FreshlyLoaded(handler', viewer', plot0')]_vars

\* C29: in every reachable viewer state, for each channel filtered_data is
\* None exactly when filtered_time is None, and a cached filtered array was
\* derived (by one or more apply_filter calls) from the currently selected
\* sweep of the currently loaded file; what plot 0 shows is the current
\* sweep, so filtered data of one sweep is never displayed for another.
CacheOfCurrentSweep(filtered_data, filtered_time, channel) ==
  /\ (filtered_data = None) <=> (filtered_time = None)
  /\ filtered_data # None =>
       /\ is_loaded(handler)
       /\ filtered_data[1].file = handler.abf[1]
       /\ filtered_data[1].sweep = handler.current_sweep
       /\ filtered_data[1].channel = channel
       /\ filtered_time[1] = TimeBase(handler.abf[1], handler.current_sweep)

C29_CacheBelongsToCurrentSweep ==
  /\ CacheOfCurrentSweep(viewer.filtered_data_ch0, viewer.filtered_time_ch0, 0)
  /\ CacheOfCurrentSweep(viewer.filtered_data_ch1, viewer.filtered_time_ch1, 1)
  /\ plot0.current_data # None =>
       /\ plot0.current_data[1].trace.file = handler.abf[1]
       /\ plot0.current_data[1].trace.sweep = handler.current_sweep
       /\ plot0.current_data[1].trace =
            IF viewer.filtered_data_ch0 # None THEN viewer.filtered_data_ch0[1]
            ELSE Trace(handler.abf[1], handler.current_sweep, 0, 0)

C29_Witness ==
  /\ handler.abf = Some(2)
  /\ handler.current_sweep = 1
  /\ viewer.filtered_data_ch0 # None
  /\ viewer.filtered_data_ch0[1].passes = MaxFilterPasses
  /\ plot0.current_data[1].trace = viewer.filtered_data_ch0[1]

\* C21: once apply_filter has stored a filtered array for channel 0 of the
\* current sweep, a following detect_peaks (no sweep change or file load in
\* between, so the array is still stored) runs peak detection on that
\* filtered array, the one plot 0 displays.
C21_PeaksOnFilteredTrace ==
  (op = "detect_peaks" /\ viewer.filtered_data_ch0 # None)
    => /\ args.data = viewer.filtered_data_ch0[1]
       /\ args.data = plot0.current_data[1].trace

\* C30: after any sequence of detect_blocks, sweep changes, apply_filter,
\* baseline_correction, command waveform toggles and clear_blocks, the
\* block markers on plot 0 are exactly the blocks of detected_blocks whose
\* sweep_number is the current sweep.
C30_MarkersMatchDetectedBlocks ==
  plot0.block_markers = BlocksOfCurrentSweep(viewer.detected_blocks, handler.current_sweep)

\* C22: when apply_filter filters only the cursor-bounded range
\* [start_idx, end_idx) with 0 < cutoff < sample_rate/2, the number of extra
\* samples taken on each side is min(int(6 * sigma_samples) + 10, start_idx,
\* len(data) - end_idx) with sigma_samples = 0.1325 * sample_rate / cutoff,
\* the sigma of the Gaussian filter itself.
FilterSigma6 ==
  (6 * SigmaSamples(args.cutoff, sample_rate_of(handler)).num)
    \div SigmaSamples(args.cutoff, sample_rate_of(handler)).den

C22_PaddingFromFilterSigma ==
  (/\ op = "apply_filter"
   /\ args.filter_between_cursors
   /\ args.segment # None
   /\ 0 < args.cutoff /\ 2 * args.cutoff < sample_rate_of(handler))
    => args.segment[1].padding =
         Min2(FilterSigma6 + 10,
              Min2(args.segment[1].start_idx,
                   Len(sweepX(handler.abf[1])) - args.segment[1].end_idx))

====
